---- MODULE Spec2Model ----
(***************************************************************************)
(* Secrets runtime and migration core of the gateway CLI.                  *)
(*                                                                         *)
(* Strings are sequences of atoms: an atom is either one of the special    *)
(* characters the code inspects (" ", "/", "~", "0", "1", "=", quotes,     *)
(* "\n", "\r") or an opaque run of word characters such as "openai".       *)
(* JSON values are tagged records, so that a string, a SecretRef, an       *)
(* object and undefined can be compared with each other.                   *)
(***************************************************************************)
EXTENDS Integers, Sequences, FiniteSets, TLC

\* ------------------------------------------------------------------ strings

IsSpace(a) == a \in {" ", "\t", "\r", "\n"}

RECURSIVE TrimLeft(_)
TrimLeft(s) ==
    IF s # <<>> /\ IsSpace(Head(s)) THEN TrimLeft(Tail(s)) ELSE s

RECURSIVE TrimRight(_)
TrimRight(s) ==
    IF s # <<>> /\ IsSpace(s[Len(s)]) THEN TrimRight(SubSeq(s, 1, Len(s) - 1)) ELSE s

\* String.prototype.trim
trim(s) == TrimRight(TrimLeft(s))

\* ------------------------------------------------------------------ values

Undef == [t |-> "undef"]
Str(s) == [t |-> "str", s |-> s]
Ref(source, id) == [t |-> "ref", source |-> source, id |-> id]
\* a JSON object that is not a SecretRef; c stands for its content, <<>> for {}
Obj(c) == [t |-> "obj", c |-> c]
Arr(c) == [t |-> "arr", c |-> c]

isSecretRef(v) == v.t = "ref"
isRecord(v) == v.t \in {"obj", "ref"}
isNonEmptyString(v) == v.t = "str" /\ trim(v.s) # <<>>
objectKeys(v) == IF v.t = "obj" THEN v.c ELSE <<>>

\* ------------------------------------------------------------ JSON pointer

\* RFC6901 token escape: "~" becomes "~0", "/" becomes "~1"
RECURSIVE encodeJsonPointerToken(_)
encodeJsonPointerToken(tok) ==
    IF tok = <<>> THEN <<>>
    ELSE (CASE Head(tok) = "~" -> <<"~", "0">>
            [] Head(tok) = "/" -> <<"~", "1">>
            [] OTHER -> <<Head(tok)>>) \o encodeJsonPointerToken(Tail(tok))

\* RFC6901 token unescape: "~1" becomes "/", "~0" becomes "~"
RECURSIVE decodeJsonPointerToken(_)
decodeJsonPointerToken(tok) ==
    IF tok = <<>> THEN <<>>
    ELSE IF Len(tok) >= 2 /\ tok[1] = "~" /\ tok[2] = "1"
         THEN <<"/">> \o decodeJsonPointerToken(SubSeq(tok, 3, Len(tok)))
    ELSE IF Len(tok) >= 2 /\ tok[1] = "~" /\ tok[2] = "0"
         THEN <<"~">> \o decodeJsonPointerToken(SubSeq(tok, 3, Len(tok)))
    ELSE <<Head(tok)>> \o decodeJsonPointerToken(Tail(tok))

\* the tokens of a pointer that starts with "/": split at every "/"
RECURSIVE splitPointer(_, _)
splitPointer(rest, cur) ==
    IF rest = <<>> THEN <<cur>>
    ELSE IF Head(rest) = "/" THEN <<cur>> \o splitPointer(Tail(rest), <<>>)
    ELSE splitPointer(Tail(rest), Append(cur, Head(rest)))

\* the decoded path a pointer addresses; "" addresses the root
parseJsonPointer(pointer) ==
    IF pointer = <<>> THEN <<>>
    ELSE LET toks == splitPointer(Tail(pointer), <<>>)
         IN [i \in 1..Len(toks) |-> decodeJsonPointerToken(toks[i])]

IsPrefix(p, q) == Len(p) <= Len(q) /\ SubSeq(q, 1, Len(p)) = p

\* A JSON object is kept as the function from the paths of its leaves to
\* their values. readJsonPointer with onMissing = "undefined".
readJsonPointer(root, pointer) ==
    LET path == parseJsonPointer(pointer)
    IN IF path \in DOMAIN root THEN root[path]
       ELSE IF \E q \in DOMAIN root : IsPrefix(path, q) THEN Obj(<<"node">>)
       ELSE Undef

\* setJsonPointer creates the intermediate objects and replaces what was there
setJsonPointer(root, pointer, value) ==
    LET path == parseJsonPointer(pointer)
        keep == {q \in DOMAIN root : ~IsPrefix(path, q)}
    IN [q \in keep \cup {path} |-> IF q = path THEN value ELSE root[q]]

\* setJsonPointer refuses to step through an intermediate that is no object
setJsonPointerThrows(root, pointer) ==
    LET path == parseJsonPointer(pointer)
    IN \/ pointer # <<>> /\ Head(pointer) # "/"
       \/ \E q \in DOMAIN root : q # path /\ IsPrefix(q, path) /\ root[q].t # "obj"

isDeepStrictEqual(a, b) == a = b

\* {}
EmptyObject == [q \in {} |-> Undef]

\* ------------------------------------------------- planning: per-site rules

ZeroCounters ==
    [configRefs |-> 0, authProfileRefs |-> 0, plaintextRemoved |-> 0,
     secretsWritten |-> 0, envEntriesRemoved |-> 0, authStoresChanged |-> 0]

\* what a planning run carries from site to site: the config being
\* migrated, the payload, the counters, the migrated plaintext values, the
\* auth store being migrated and the auth store changes collected so far
InitialPlanState(config, payload) ==
    [config |-> config, payload |-> payload, counters |-> ZeroCounters,
     migratedValues |-> {}, threw |-> FALSE,
     store |-> [profiles |-> <<>>, changed |-> FALSE], authStoreChanges |-> <<>>]

\* write value at id unless the payload already holds an equal value there
\* a store that writes and counts whatever the payload holds
storeSecretAlways(st, id, value) ==
    IF setJsonPointerThrows(st.payload, id) THEN [st EXCEPT !.threw = TRUE]
    ELSE [st EXCEPT !.payload = setJsonPointer(@, id, value),
                    !.counters.secretsWritten = @ + 1]

storeSecret(st, id, value) ==
    IF isDeepStrictEqual(readJsonPointer(st.payload, id), value) THEN st
    ELSE IF setJsonPointerThrows(st.payload, id) THEN [st EXCEPT !.threw = TRUE]
    ELSE [st EXCEPT !.payload = setJsonPointer(@, id, value),
                    !.counters.secretsWritten = @ + 1]

providerPointer(providerId) ==
    <<"/", "providers", "/">> \o encodeJsonPointerToken(providerId) \o <<"/", "apiKey">>

skillPointer(skillKey) ==
    <<"/", "skills", "/", "entries", "/">> \o encodeJsonPointerToken(skillKey) \o <<"/", "apiKey">>

\* a rule that stores the secret and leaves the plaintext in the config
migrateApiKeySiteKeepingPlaintext(st, section, i, id) ==
    IF isSecretRef(st.config[section][i].apiKey) \/ ~isNonEmptyString(st.config[section][i].apiKey)
    THEN st
    ELSE [storeSecret(st, id, Str(trim(st.config[section][i].apiKey.s)))
             EXCEPT !.counters.configRefs = @ + 1,
                    !.migratedValues = @ \cup {trim(st.config[section][i].apiKey.s)}]

\* the rule of one models.providers.<id>.apiKey or skills.entries.<key>.apiKey
\* site: entry i of the section of the config
migrateApiKeySite(st, section, i, id) ==
    IF isSecretRef(st.config[section][i].apiKey) \/ ~isNonEmptyString(st.config[section][i].apiKey)
    THEN st
    ELSE [storeSecret(st, id, Str(trim(st.config[section][i].apiKey.s)))
             EXCEPT !.config[section][i].apiKey = Ref("file", id),
                    !.counters.configRefs = @ + 1,
                    !.migratedValues = @ \cup {trim(st.config[section][i].apiKey.s)}]

RECURSIVE migrateModelProviderSecrets(_, _)
migrateModelProviderSecrets(st, i) ==
    IF i > Len(st.config.providers) THEN st
    ELSE migrateModelProviderSecrets(
            migrateApiKeySite(st, "providers", i, providerPointer(st.config.providers[i].id)),
            i + 1)

RECURSIVE migrateSkillEntrySecrets(_, _)
migrateSkillEntrySecrets(st, i) ==
    IF i > Len(st.config.skills) THEN st
    ELSE migrateSkillEntrySecrets(
            migrateApiKeySite(st, "skills", i, skillPointer(st.config.skills[i].id)),
            i + 1)

\* channels.googlechat itself (i = 0) or its account i
googleChatAccount(st, i) ==
    IF i = 0 THEN st.config.googlechat ELSE st.config.googlechat.accounts[i]

withGoogleChatAccount(st, i, account) ==
    IF i = 0 THEN [st EXCEPT !.config.googlechat = account]
    ELSE [st EXCEPT !.config.googlechat.accounts[i] = account]

\* an account is a record with serviceAccount and serviceAccountRef; the
\* migrated value is not added to migratedValues
\* a migration that keeps the plaintext next to a ref
migrateGoogleChatServiceAccountKeeping(st, i, pointerId) ==
    LET account == googleChatAccount(st, i)
        value == account.serviceAccount
        id == pointerId \o <<"/", "serviceAccount">>
        normalizedValue == IF isNonEmptyString(value) THEN Str(trim(value.s)) ELSE value
    IN IF isSecretRef(account.serviceAccountRef) \/ isSecretRef(account.serviceAccount)
       THEN st
       ELSE IF ~isNonEmptyString(value) /\ ~(isRecord(value) /\ objectKeys(value) # <<>>)
       THEN st
       ELSE [withGoogleChatAccount(storeSecret(st, id, normalizedValue), i,
                                   [account EXCEPT !.serviceAccountRef = Ref("file", id),
                                                   !.serviceAccount = Undef])
                EXCEPT !.counters.configRefs = @ + 1]

migrateGoogleChatServiceAccount(st, i, pointerId) ==
    LET account == googleChatAccount(st, i)
        explicitRef == isSecretRef(account.serviceAccountRef)
        inlineRef == isSecretRef(account.serviceAccount)
        value == account.serviceAccount
        hasStringValue == isNonEmptyString(value)
        hasObjectValue == isRecord(value) /\ objectKeys(value) # <<>>
        id == pointerId \o <<"/", "serviceAccount">>
        normalizedValue == IF hasStringValue THEN Str(trim(value.s)) ELSE value
    IN IF explicitRef \/ inlineRef
       THEN IF account.serviceAccount # Undef /\ ~isSecretRef(account.serviceAccount)
            THEN [withGoogleChatAccount(st, i, [account EXCEPT !.serviceAccount = Undef])
                     EXCEPT !.counters.plaintextRemoved = @ + 1]
            ELSE st
       ELSE IF ~hasStringValue /\ ~hasObjectValue
       THEN st
       ELSE [withGoogleChatAccount(storeSecret(st, id, normalizedValue), i,
                                   [account EXCEPT !.serviceAccountRef = Ref("file", id),
                                                   !.serviceAccount = Undef])
                EXCEPT !.counters.configRefs = @ + 1]

accountPointer(accountId) ==
    <<"/", "channels", "/", "googlechat", "/", "accounts", "/">> \o encodeJsonPointerToken(accountId)

RECURSIVE migrateGoogleChatAccounts(_, _)
migrateGoogleChatAccounts(st, i) ==
    IF i > Len(st.config.googlechat.accounts) THEN st
    ELSE migrateGoogleChatAccounts(
            migrateGoogleChatServiceAccount(st, i, accountPointer(st.config.googlechat.accounts[i].id)),
            i + 1)

\* googlechat: [present, serviceAccount, serviceAccountRef, accounts]
migrateGoogleChatSecrets(st) ==
    IF ~st.config.googlechat.present THEN st
    ELSE migrateGoogleChatAccounts(
            migrateGoogleChatServiceAccount(st, 0, <<"/", "channels", "/", "googlechat">>), 1)

authProfilePointer(scope, profileId, field) ==
    <<"/", "auth-profiles", "/">> \o encodeJsonPointerToken(scope) \o <<"/">>
        \o encodeJsonPointerToken(profileId) \o <<"/", field>>

\* the value of a profile's key or token: the trimmed string, or "" if none
profileSecret(v) == IF isNonEmptyString(v) THEN trim(v.s) ELSE <<>>

\* a migration of a profile that writes the ref and keeps the plaintext
migrateAuthProfileKeepingPlaintext(st, scope, i) ==
    LET profile == st.store.profiles[i]
        key == profileSecret(profile.key)
        token == profileSecret(profile.token)
        keyId == authProfilePointer(scope, profile.id, "key")
        tokenId == authProfilePointer(scope, profile.id, "token")
    IN CASE profile.type = "api_key" /\ ~isSecretRef(profile.keyRef) /\ key # <<>> ->
              [storeSecret(st, keyId, Str(key))
                  EXCEPT !.store.profiles[i].keyRef = Ref("file", keyId),
                         !.store.changed = TRUE,
                         !.counters.authProfileRefs = @ + 1,
                         !.migratedValues = @ \cup {key}]
         [] profile.type = "token" /\ ~isSecretRef(profile.tokenRef) /\ token # <<>> ->
              [storeSecret(st, tokenId, Str(token))
                  EXCEPT !.store.profiles[i].tokenRef = Ref("file", tokenId),
                         !.store.changed = TRUE,
                         !.counters.authProfileRefs = @ + 1,
                         !.migratedValues = @ \cup {token}]
         [] profile.type = "api_key" /\ isSecretRef(profile.keyRef) /\ key # <<>> ->
              [st EXCEPT !.store.profiles[i].key = Undef,
                         !.store.changed = TRUE,
                         !.counters.plaintextRemoved = @ + 1]
         [] profile.type = "token" /\ isSecretRef(profile.tokenRef) /\ token # <<>> ->
              [st EXCEPT !.store.profiles[i].token = Undef,
                         !.store.changed = TRUE,
                         !.counters.plaintextRemoved = @ + 1]
         [] OTHER -> st

\* profile i of the auth store being migrated: [id, type, key, keyRef, token, tokenRef]
migrateAuthProfile(st, scope, i) ==
    LET profile == st.store.profiles[i]
        key == profileSecret(profile.key)
        token == profileSecret(profile.token)
        keyId == authProfilePointer(scope, profile.id, "key")
        tokenId == authProfilePointer(scope, profile.id, "token")
    IN CASE profile.type = "api_key" ->
              IF isSecretRef(profile.keyRef)
              THEN IF key # <<>>
                   THEN [st EXCEPT !.store.profiles[i].key = Undef,
                                   !.store.changed = TRUE,
                                   !.counters.plaintextRemoved = @ + 1]
                   ELSE st
              ELSE IF key = <<>> THEN st
              ELSE [storeSecret(st, keyId, Str(key))
                       EXCEPT !.store.profiles[i].keyRef = Ref("file", keyId),
                              !.store.profiles[i].key = Undef,
                              !.store.changed = TRUE,
                              !.counters.authProfileRefs = @ + 1,
                              !.migratedValues = @ \cup {key}]
         [] profile.type = "token" ->
              IF isSecretRef(profile.tokenRef)
              THEN IF token # <<>>
                   THEN [st EXCEPT !.store.profiles[i].token = Undef,
                                   !.store.changed = TRUE,
                                   !.counters.plaintextRemoved = @ + 1]
                   ELSE st
              ELSE IF token = <<>> THEN st
              ELSE [storeSecret(st, tokenId, Str(token))
                       EXCEPT !.store.profiles[i].tokenRef = Ref("file", tokenId),
                              !.store.profiles[i].token = Undef,
                              !.store.changed = TRUE,
                              !.counters.authProfileRefs = @ + 1,
                              !.migratedValues = @ \cup {token}]
         [] OTHER -> st

RECURSIVE migrateAuthStoreSecrets(_, _, _)
migrateAuthStoreSecrets(st, scope, i) ==
    IF i > Len(st.store.profiles) THEN st
    ELSE migrateAuthStoreSecrets(migrateAuthProfile(st, scope, i), scope, i + 1)

\* ------------------------------------------------------------- env scrub

\* a word character run: an opaque atom made of [A-Za-z0-9_], or one digit
IsDigit(a) == a \in {"0", "1"}
IsWord(a) == a \notin {" ", "\t", "\r", "\n", "/", "~", "=", "\"", "'", "#", "$", "{", "}", ":", "-", "."}

RECURSIVE WordRun(_)
WordRun(s) == IF s # <<>> /\ IsWord(Head(s)) THEN <<Head(s)>> \o WordRun(Tail(s)) ELSE <<>>

Drop(s, n) == SubSeq(s, n + 1, Len(s))

HasLineTerminator(s) == \E i \in 1..Len(s) : s[i] \in {"\r", "\n"}

\* ([A-Za-z_][A-Za-z0-9_]*)\s*=\s*(.*)$ at the start of s
matchKeyValue(s) ==
    LET key == WordRun(s)
        afterKey == TrimLeft(Drop(s, Len(key)))
        value == TrimLeft(Tail(afterKey))
    IN IF key = <<>> \/ IsDigit(Head(key)) THEN [matched |-> FALSE]
       ELSE IF afterKey = <<>> \/ Head(afterKey) # "=" THEN [matched |-> FALSE]
       ELSE IF HasLineTerminator(value) THEN [matched |-> FALSE]
       ELSE [matched |-> TRUE, key |-> key, value |-> value]

\* ^\s*(?:export\s+)?([A-Za-z_][A-Za-z0-9_]*)\s*=\s*(.*)$
matchEnvLine(line) ==
    LET s == TrimLeft(line)
        afterExport == Drop(s, 1)
        withExport == IF Len(s) >= 2 /\ s[1] = "export" /\ IsSpace(s[2])
                      THEN matchKeyValue(TrimLeft(afterExport))
                      ELSE [matched |-> FALSE]
    IN IF withExport.matched THEN withExport ELSE matchKeyValue(s)

parseEnvValue(raw) ==
    LET trimmed == trim(raw)
    IN IF trimmed # <<>> /\ Head(trimmed) = trimmed[Len(trimmed)] /\ Head(trimmed) \in {"\"", "'"}
       THEN SubSeq(trimmed, 2, Len(trimmed) - 1)
       ELSE trimmed

stripCR(line) ==
    IF line # <<>> /\ line[Len(line)] = "\r" THEN SubSeq(line, 1, Len(line) - 1) ELSE line

\* raw.split(/\r?\n/)
RECURSIVE splitLines(_, _)
splitLines(rest, cur) ==
    IF rest = <<>> THEN <<cur>>
    ELSE IF Head(rest) = "\n" THEN <<stripCR(cur)>> \o splitLines(Tail(rest), <<>>)
    ELSE splitLines(Tail(rest), Append(cur, Head(rest)))

RECURSIVE joinLines(_)
joinLines(lines) ==
    IF lines = <<>> THEN <<>>
    ELSE IF Len(lines) = 1 THEN lines[1]
    ELSE lines[1] \o <<"\n">> \o joinLines(Tail(lines))

\* a scrub that drops every line of a migrated value, whatever its key
scrubsLineOfAnyKey(line, migratedValues, allowedEnvKeys) ==
    LET m == matchEnvLine(line)
    IN /\ m.matched
       /\ parseEnvValue(m.value) \in migratedValues

\* whether scrubEnvRaw drops this line
scrubsLine(line, migratedValues, allowedEnvKeys) ==
    LET m == matchEnvLine(line)
    IN /\ m.matched
       /\ m.key \in allowedEnvKeys
       /\ parseEnvValue(m.value) \in migratedValues

RECURSIVE keepLines(_, _, _)
keepLines(lines, migratedValues, allowedEnvKeys) ==
    IF lines = <<>> THEN <<>>
    ELSE (IF scrubsLine(Head(lines), migratedValues, allowedEnvKeys) THEN <<>> ELSE <<Head(lines)>>)
           \o keepLines(Tail(lines), migratedValues, allowedEnvKeys)

scrubEnvRaw(raw, migratedValues, allowedEnvKeys) ==
    IF migratedValues = {} \/ allowedEnvKeys = {} THEN [nextRaw |-> raw, removed |-> 0]
    ELSE LET lines == splitLines(raw, <<>>)
             nextLines == keepLines(lines, migratedValues, allowedEnvKeys)
             hadTrailingNewline == raw # <<>> /\ raw[Len(raw)] = "\n"
             joined == joinLines(nextLines)
             endsNl == joined # <<>> /\ joined[Len(joined)] = "\n"
         IN [nextRaw |-> IF hadTrailingNewline \/ joined = <<>>
                         THEN (IF endsNl THEN joined ELSE joined \o <<"\n">>)
                         ELSE joined,
             removed |-> Len(lines) - Len(nextLines)]

\* ------------------------------------------------------------------ files

\* A file is a record: its kind k, its parsed content v (a text for .env, the
\* decrypted JSON value for the encrypted payload) and its mode.
NoFile == [k |-> "none"]
File(k, v, mode) == [k |-> k, v |-> v, mode |-> mode]
Exists(f) == f.k # "none"

CONFIG_PATH == "state/openclaw.json"
ENV_PATH == "state/.env"
SOPS_YAML == "state/.sops.yaml"
SOPS_YML == "state/.sops.yml"
DEFAULT_SECRETS_FILE_PATH == "~/.openclaw/secrets.enc.json"
HOME_SECRETS_PATH == "home/.openclaw/secrets.enc.json"
STATE_SECRETS_PATH == "state/secrets.enc.json"
CUSTOM_SECRETS_PATH == "vault/secrets.enc.json"
MAIN_AUTH_PATH == "state/agents/main/agent/auth-profiles.json"
WORKER_AUTH_PATH == "state/agents/worker/agent/auth-profiles.json"
CUSTOM_AUTH_PATH == "opt/agent-x/auth-profiles.json"
\* an agent directory whose name ends in a space
PADDED_WORKER_AUTH_PATH == "state/agents/worker /agent/auth-profiles.json"

AuthPaths == {MAIN_AUTH_PATH, WORKER_AUTH_PATH, CUSTOM_AUTH_PATH, PADDED_WORKER_AUTH_PATH}
SecretsPaths == {HOME_SECRETS_PATH, STATE_SECRETS_PATH, CUSTOM_SECRETS_PATH}
Paths == {CONFIG_PATH, ENV_PATH, SOPS_YAML, SOPS_YML} \cup SecretsPaths \cup AuthPaths

\* user-path expansion: "~" is the home directory
resolveUserPath(p) == IF p = DEFAULT_SECRETS_FILE_PATH THEN HOME_SECRETS_PATH ELSE p

DEFAULT_SOPS_TIMEOUT_MS == 5000

normalizePositiveInt(value, fallback) == IF value > 0 THEN value ELSE fallback

\* the static allow-list of secret environment variable names
listKnownSecretEnvVarNames == {<<"OPENAI_API_KEY">>, <<"ANTHROPIC_API_KEY">>}

\* ---------------------------------------------------------------- planning

\* config.secrets.sources.file: [present, type, path, timeoutMs]; a
\* timeoutMs of 0 stands for a missing one
NoFileSource == [present |-> FALSE, type |-> "", path |-> Undef, timeoutMs |-> 0]
SopsSource(path, timeoutMs) == [present |-> TRUE, type |-> "sops", path |-> path, timeoutMs |-> timeoutMs]

\* the string a path value holds
pathOf(v) == IF v.t = "str" /\ Len(v.s) = 1 THEN v.s[1] ELSE ""

resolveDefaultSecretsConfigPath(env) ==
    IF env.stateDirSet THEN STATE_SECRETS_PATH ELSE DEFAULT_SECRETS_FILE_PATH

resolveFileSource(config, env) ==
    LET source == config.fileSource
    IN IF source.present /\ source.type = "sops" /\ isNonEmptyString(source.path)
       THEN [path |-> resolveUserPath(pathOf(source.path)),
             timeoutMs |-> normalizePositiveInt(source.timeoutMs, DEFAULT_SOPS_TIMEOUT_MS),
             hadConfiguredSource |-> TRUE]
       ELSE [path |-> resolveUserPath(resolveDefaultSecretsConfigPath(env)),
             timeoutMs |-> DEFAULT_SOPS_TIMEOUT_MS,
             hadConfiguredSource |-> FALSE]

\* "" when neither <configDir>/.sops.yaml nor .sops.yml exists
resolveExistingSopsConfigPath(dsk) ==
    IF Exists(dsk[SOPS_YAML]) THEN SOPS_YAML
    ELSE IF Exists(dsk[SOPS_YML]) THEN SOPS_YML
    ELSE ""

\* the outcome of the planning decrypt: tool is how sops behaves in this run
decryptSopsJson(dsk, pathname, tool) ==
    IF ~Exists(dsk[pathname]) THEN [ok |-> TRUE, payload |-> EmptyObject]
    ELSE IF tool # "ok" THEN [ok |-> FALSE, error |-> tool]
    ELSE IF dsk[pathname].k # "payload" THEN [ok |-> FALSE, error |-> "not a JSON object"]
    ELSE [ok |-> TRUE, payload |-> dsk[pathname].v]

\* arguments that put --config and its path last
sopsArgsConfigLast(configPath, args) ==
    args \o (IF configPath # "" THEN <<"--config", configPath>> ELSE <<>>)

\* the arguments of a sops invocation: --config and its path come first
\* when a config path is given
sopsArgs(configPath, args) ==
    (IF configPath # "" THEN <<"--config", configPath>> ELSE <<>>) \o args

\* the runExec call of decryptSopsJsonFile
decryptCall(pathname, configPath) ==
    [bin |-> "sops", args |-> sopsArgs(configPath, <<"--decrypt", "--output-type", "json", pathname>>)]

\* the runExec call of encryptSopsJsonFile
encryptCall(pathname, configPath) ==
    [bin |-> "sops",
     args |-> sopsArgs(configPath, <<"--encrypt", "--input-type", "json", "--output-type", "json",
                                     "--output", "enc.tmp", "plain.tmp">>)]

RECURSIVE Dedup(_)
Dedup(seq) ==
    IF seq = <<>> THEN <<>>
    ELSE LET rest == Dedup(SubSeq(seq, 1, Len(seq) - 1))
             last == seq[Len(seq)]
         IN IF \E i \in 1..Len(rest) : rest[i] = last THEN rest ELSE Append(rest, last)

\* the default store, the stores of the agent directories under
\* <stateDir>/agents, and the stores of the agents the config lists
collectAuthStorePaths(config, agentDirs) ==
    Dedup(<<MAIN_AUTH_PATH>> \o agentDirs \o config.agentStores)

\* sha1(path)[0..8], kept as the path itself: distinct paths, distinct digests
pathDigest(authStorePath) == authStorePath

\* the directory name under <stateDir>/agents of a store in the standard layout
agentDirName(authStorePath) ==
    CASE authStorePath = MAIN_AUTH_PATH -> <<"main">>
      [] authStorePath = WORKER_AUTH_PATH -> <<"worker">>
      [] authStorePath = PADDED_WORKER_AUTH_PATH -> <<"worker", " ">>
      [] OTHER -> <<>>

deriveAuthStoreScope(authStorePath) ==
    LET candidate == trim(agentDirName(authStorePath))
    IN IF candidate # <<>> THEN candidate ELSE <<"path-", pathDigest(authStorePath)>>

\* an auth store is loaded for migration
withAuthStore(st, store) ==
    [st EXCEPT !.store = [profiles |-> store.profiles, changed |-> FALSE]]

\* a loop that records every parsed auth store as a change
collectAuthStoreChangeAlways(st, path, store) ==
    [st EXCEPT !.authStoreChanges =
        Append(@, [path |-> path, nextStore |-> [store EXCEPT !.profiles = st.store.profiles]])]

\* a migrated auth store joins the changes of the plan if it changed
collectAuthStoreChange(st, path, store) ==
    IF ~st.store.changed THEN st
    ELSE [st EXCEPT !.authStoreChanges =
             Append(@, [path |-> path, nextStore |-> [store EXCEPT !.profiles = st.store.profiles]])]

\* the loop over the auth stores
RECURSIVE migrateAuthStores(_, _, _, _)
migrateAuthStores(dsk, paths, st, i) ==
    IF i > Len(paths) THEN st
    ELSE IF dsk[paths[i]].k # "auth" THEN migrateAuthStores(dsk, paths, st, i + 1)
    ELSE migrateAuthStores(dsk, paths,
            collectAuthStoreChange(
                migrateAuthStoreSecrets(withAuthStore(st, dsk[paths[i]].v),
                                        deriveAuthStoreScope(paths[i]), 1),
                paths[i], dsk[paths[i]].v),
            i + 1)

migrateAllAuthStores(dsk, agentDirs, st) ==
    migrateAuthStores(dsk, collectAuthStorePaths(st.config, agentDirs), st, 1)

NoEnvChange == [present |-> FALSE, path |-> "", nextRaw |-> <<>>]

scrubbedEnvChange(rawEnv, scrubbed) ==
    IF scrubbed.removed > 0 /\ scrubbed.nextRaw # rawEnv
    THEN [removed |-> scrubbed.removed,
          envChange |-> [present |-> TRUE, path |-> ENV_PATH, nextRaw |-> scrubbed.nextRaw]]
    ELSE [removed |-> 0, envChange |-> NoEnvChange]

planEnvChange(dsk, scrubEnv, migratedValues) ==
    IF scrubEnv /\ migratedValues # {} /\ dsk[ENV_PATH].k = "env"
    THEN scrubbedEnvChange(dsk[ENV_PATH].v,
                           scrubEnvRaw(dsk[ENV_PATH].v, migratedValues, listKnownSecretEnvVarNames))
    ELSE [removed |-> 0, envChange |-> NoEnvChange]

\* backup targets that leave out the env file
planBackupTargetsWithoutEnv(configChanged, payloadChanged, secretsFilePath, authStoreChanges, envChange) ==
    Dedup((IF configChanged THEN <<CONFIG_PATH>> ELSE <<>>)
          \o (IF payloadChanged THEN <<secretsFilePath>> ELSE <<>>)
          \o [i \in 1..Len(authStoreChanges) |-> authStoreChanges[i].path])

planBackupTargets(configChanged, payloadChanged, secretsFilePath, authStoreChanges, envChange) ==
    Dedup((IF configChanged THEN <<CONFIG_PATH>> ELSE <<>>)
          \o (IF payloadChanged THEN <<secretsFilePath>> ELSE <<>>)
          \o [i \in 1..Len(authStoreChanges) |-> authStoreChanges[i].path]
          \o (IF envChange.present THEN <<envChange.path>> ELSE <<>>))

PlanFailed(error) == [ok |-> FALSE, error |-> error, changed |-> FALSE]

\* the config the plan writes: the file source is added when a secret was
\* written and none was configured
\* a plan that puts the default source in place of a configured one
planNextConfigOverConfigured(st, fileSource, env) ==
    IF st.counters.secretsWritten > 0
    THEN [st.config EXCEPT !.fileSource =
             SopsSource(Str(<<resolveDefaultSecretsConfigPath(env)>>), DEFAULT_SOPS_TIMEOUT_MS)]
    ELSE st.config

planNextConfig(st, fileSource, env) ==
    IF st.counters.secretsWritten > 0 /\ ~fileSource.hadConfiguredSource
    THEN [st.config EXCEPT !.fileSource =
             SopsSource(Str(<<resolveDefaultSecretsConfigPath(env)>>), DEFAULT_SOPS_TIMEOUT_MS)]
    ELSE st.config

\* the plan, from what the sites left
assemblePlan(config, previousPayload, fileSource, sopsConfigPath, st, nextConfig, env) ==
    [ok |-> TRUE,
     changed |-> ~isDeepStrictEqual(config, nextConfig)
                    \/ ~isDeepStrictEqual(previousPayload, st.payload)
                    \/ Len(st.authStoreChanges) > 0
                    \/ env.envChange.present,
     counters |-> [st.counters EXCEPT !.authStoresChanged = Len(st.authStoreChanges),
                                      !.envEntriesRemoved = env.removed],
     configChanged |-> ~isDeepStrictEqual(config, nextConfig),
     nextConfig |-> nextConfig,
     authStoreChanges |-> st.authStoreChanges,
     payloadChanged |-> ~isDeepStrictEqual(previousPayload, st.payload),
     nextPayload |-> st.payload,
     secretsFilePath |-> fileSource.path,
     secretsFileTimeoutMs |-> fileSource.timeoutMs,
     sopsConfigPath |-> sopsConfigPath,
     envChange |-> env.envChange,
     backupTargets |-> planBackupTargets(~isDeepStrictEqual(config, nextConfig),
                                         ~isDeepStrictEqual(previousPayload, st.payload),
                                         fileSource.path, st.authStoreChanges, env.envChange)]

\* the sites are migrated in the order providers, skills, googlechat, auth stores
migrateSites(dsk, opts, config, payload) ==
    migrateAllAuthStores(dsk, opts.agentDirs,
        migrateGoogleChatSecrets(
            migrateSkillEntrySecrets(
                migrateModelProviderSecrets(InitialPlanState(config, payload), 1), 1)))

planFromSites(dsk, opts, config, previousPayload, fileSource, st) ==
    IF st.threw THEN PlanFailed("setJsonPointer")
    ELSE assemblePlan(config, previousPayload, fileSource, resolveExistingSopsConfigPath(dsk), st,
                      planNextConfig(st, fileSource, opts.env),
                      planEnvChange(dsk, opts.scrubEnv, st.migratedValues))

planFromPayload(dsk, opts, config, fileSource, decrypted) ==
    IF ~decrypted.ok THEN PlanFailed(decrypted.error)
    ELSE planFromSites(dsk, opts, config, decrypted.payload, fileSource,
                       migrateSites(dsk, opts, config, decrypted.payload))

planFromConfig(dsk, opts, config, fileSource) ==
    planFromPayload(dsk, opts, config, fileSource, decryptSopsJson(dsk, fileSource.path, opts.tool))

\* the sops invocations buildMigrationPlan makes: the decrypt of the
\* encrypted file, when the config is valid and the file exists
planningCalls(dsk, opts) ==
    IF dsk[CONFIG_PATH].k # "config" THEN <<>>
    ELSE IF ~Exists(dsk[resolveFileSource(dsk[CONFIG_PATH].v, opts.env).path]) THEN <<>>
    ELSE <<decryptCall(resolveFileSource(dsk[CONFIG_PATH].v, opts.env).path,
                       resolveExistingSopsConfigPath(dsk))>>

\* buildMigrationPlan reads the disk and returns the plan; opts is
\* [env, scrubEnv, agentDirs, tool]
buildMigrationPlan(dsk, opts) ==
    IF dsk[CONFIG_PATH].k # "config" THEN PlanFailed("config is invalid")
    ELSE planFromConfig(dsk, opts, dsk[CONFIG_PATH].v,
                        resolveFileSource(dsk[CONFIG_PATH].v, opts.env))

\* --------------------------------------------------- backups and rollback

BACKUP_RETENTION == 20

\* a backup id is the timestamp of `now` and a disambiguator (0: none)
BackupId(ts, n) == [ts |-> ts, n |-> n]
BackupIdLess(a, b) == a.ts < b.ts \/ (a.ts = b.ts /\ a.n < b.n)

RECURSIVE firstFreeBackupId(_, _, _)
firstFreeBackupId(bk, now, n) ==
    IF BackupId(now, n) \notin DOMAIN bk THEN BackupId(now, n)
    ELSE firstFreeBackupId(bk, now, n + 1)

\* an id that is the timestamp alone
timestampBackupId(bk, now) == BackupId(now, 0)

\* bk is the backup root: the function from the ids of the backup
\* directories to [entries, complete]
resolveUniqueBackupId(bk, now) == firstFreeBackupId(bk, now, 0)

\* the manifest entry of one target, with the copy of the file when it exists
backupEntry(dsk, path) ==
    IF Exists(dsk[path])
    THEN [path |-> path, existed |-> TRUE, copy |-> dsk[path]]
    ELSE [path |-> path, existed |-> FALSE, copy |-> NoFile]

\* a restore that copies the backed up files back and deletes nothing
RECURSIVE restoreExistingOnly(_, _)
restoreExistingOnly(dsk, entries) ==
    IF entries = <<>> THEN dsk
    ELSE restoreExistingOnly(
            IF Head(entries).existed THEN [dsk EXCEPT ![Head(entries).path] = Head(entries).copy]
            ELSE dsk,
            Tail(entries))

RECURSIVE restoreFromManifest(_, _)
restoreFromManifest(dsk, entries) ==
    IF entries = <<>> THEN dsk
    ELSE LET e == Head(entries)
         IN restoreFromManifest([dsk EXCEPT ![e.path] = IF e.existed THEN e.copy ELSE NoFile],
                                Tail(entries))

\* keep the BACKUP_RETENTION greatest ids
pruneOldBackups(bk) ==
    LET ids == DOMAIN bk
        keep == {a \in ids : Cardinality({b \in ids : BackupIdLess(a, b)}) < BACKUP_RETENTION}
    IN [a \in keep |-> bk[a]]

\* a rollback that consumes the backup it restored
backupsConsumedByRollback(bk, backupId) == [a \in DOMAIN bk \ {backupId} |-> bk[a]]

\* the sops invocations so far, after write step `step` of the plan was tried
callsAfterStep(calls, plan, step) ==
    IF step.kind = "payload"
    THEN Append(calls, encryptCall(plan.secretsFilePath, plan.sopsConfigPath))
    ELSE calls

\* rollback reads the backup and leaves it as it is
backupsAfterRollback(bk, backupId) == bk

\* ----------------------------------------------------------------- apply

\* writes that begin with the config file and end with the encrypted payload
applyStepsPayloadLast(plan) ==
    (IF plan.configChanged THEN <<[kind |-> "config", idx |-> 0]>> ELSE <<>>)
    \o [i \in 1..Len(plan.authStoreChanges) |-> [kind |-> "auth", idx |-> i]]
    \o (IF plan.envChange.present THEN <<[kind |-> "env", idx |-> 0]>> ELSE <<>>)
    \o (IF plan.payloadChanged THEN <<[kind |-> "payload", idx |-> 0]>> ELSE <<>>)

\* the writes of a plan, in the order applyMigrationPlan makes them
applySteps(plan) ==
    (IF plan.payloadChanged THEN <<[kind |-> "payload", idx |-> 0]>> ELSE <<>>)
    \o (IF plan.configChanged THEN <<[kind |-> "config", idx |-> 0]>> ELSE <<>>)
    \o [i \in 1..Len(plan.authStoreChanges) |-> [kind |-> "auth", idx |-> i]]
    \o (IF plan.envChange.present THEN <<[kind |-> "env", idx |-> 0]>> ELSE <<>>)

\* the file a write step writes
stepPath(plan, step) ==
    CASE step.kind = "payload" -> plan.secretsFilePath
      [] step.kind = "config" -> CONFIG_PATH
      [] step.kind = "auth" -> plan.authStoreChanges[step.idx].path
      [] step.kind = "env" -> plan.envChange.path

\* the file a write step leaves when it succeeds
stepFile(plan, step) ==
    CASE step.kind = "payload" -> File("payload", plan.nextPayload, "0600")
      [] step.kind = "config" -> File("config", plan.nextConfig, "0600")
      [] step.kind = "auth" -> File("auth", plan.authStoreChanges[step.idx].nextStore, "0600")
      [] step.kind = "env" -> File("env", plan.envChange.nextRaw, "0600")

\* The ways a write step fails, by what it leaves at its path: "untouched"
\* (the tool failed, timed out or is missing; the rename or the open
\* failed), "written" (the chmod after the write failed) or "partial" (a
\* write in place stopped half way).
stepFailures(step) ==
    CASE step.kind = "payload" -> {"untouched", "written"}
      [] step.kind = "config" -> {"untouched"}
      [] step.kind = "auth" -> {"untouched", "written"}
      [] step.kind = "env" -> {"untouched", "partial", "written"}

failedStepFile(dsk, plan, step, failure) ==
    CASE failure = "untouched" -> dsk[stepPath(plan, step)]
      [] failure = "written" -> [stepFile(plan, step) EXCEPT !.mode = "0644"]
      [] failure = "partial" -> File("garbage", <<>>, "0644")

\* an apply that writes first and backs up afterwards
applyPhasesWriteFirst == <<"write", "backup", "prune">>

\* the phases of applyMigrationPlan, in its order: the backup manifest is
\* created, then the writes are made, then old backups are pruned
applyPhases == <<"backup", "write", "prune">>

phaseAfter(ph) ==
    LET i == CHOOSE j \in 1..Len(applyPhases) : applyPhases[j] = ph
    IN IF i < Len(applyPhases) THEN applyPhases[i + 1] ELSE "idle"

\* a catch that rethrows and restores nothing
rethrowWithoutRestore(dsk, entries) == dsk

\* the catch of applyMigrationPlan: the disk it leaves
rollBackFailedApply(dsk, entries) == restoreFromManifest(dsk, entries)

\* a planning that already writes the config it plans
diskWithPlannedConfig(dsk, plan) ==
    IF plan.ok /\ plan.configChanged
    THEN [dsk EXCEPT ![CONFIG_PATH] = [k |-> "config", v |-> plan.nextConfig, mode |-> "0600"]]
    ELSE dsk

\* what planning and a dry run leave on the disk
diskAfterPlanning(dsk, plan) == dsk

\* ------------------------------------------------------------- the tree

MaxClock == 1
MaxApplies == 1

OPENAI == <<"openai">>
REVIEW_PR == <<"review-pr">>
EnvRef == Ref("env", <<"OPENAI_API_KEY">>)

GoogleChat(serviceAccount, serviceAccountRef) ==
    [present |-> TRUE, serviceAccount |-> serviceAccount,
     serviceAccountRef |-> serviceAccountRef, accounts |-> <<>>]
NoGoogleChat ==
    [present |-> FALSE, serviceAccount |-> Undef, serviceAccountRef |-> Undef, accounts |-> <<>>]

Config(providerKey, skillKey, googlechat, fileSource) ==
    [providers |-> <<[id |-> OPENAI, apiKey |-> providerKey]>>,
     skills |-> <<[id |-> REVIEW_PR, apiKey |-> skillKey]>>,
     googlechat |-> googlechat,
     fileSource |-> fileSource,
     agentStores |-> <<>>]

Profile(id, type, key, keyRef, token, tokenRef) ==
    [id |-> id, type |-> type, key |-> key, keyRef |-> keyRef, token |-> token, tokenRef |-> tokenRef]

AuthStore(profiles) == File("auth", [version |-> 1, profiles |-> profiles], "0600")

ProviderKeyChoices == {Str(<<" ", "sk-openai">>), EnvRef}
GoogleChatChoices ==
    {NoGoogleChat, GoogleChat(Str(<<"sa-json">>), Undef), GoogleChat(Obj(<<"sa">>), EnvRef)}
MainAuthChoices ==
    {NoFile,
     AuthStore(<<Profile(<<"openai:default">>, "api_key", Str(<<"sk-profile">>), Undef, Undef, Undef)>>),
     AuthStore(<<Profile(<<"openai:default">>, "api_key", Str(<<"sk-old">>), EnvRef, Undef, Undef)>>)}
WorkerAuthChoices ==
    {NoFile,
     AuthStore(<<Profile(<<"gh:default">>, "token", Undef, Undef, Str(<<"ghp-token">>), Undef)>>)}

\* a file source configured by the user, with a timeout of its own
CustomSource == SopsSource(Str(<<CUSTOM_SECRETS_PATH>>), 7000)

\* an encrypted payload that already holds the provider's key
SeedPayload ==
    File("payload", setJsonPointer(EmptyObject, providerPointer(OPENAI), Str(<<"sk-openai">>)), "0600")

\* a .env file with the provider's key, a key that is no known secret variable, and another line
SeedEnvFile ==
    File("env", <<"OPENAI_API_KEY", "=", "sk-openai", "\n", "SKILL_KEY", "=", "sk-skill", "\n",
                  "UNRELATED", "=", "value", "\n">>, "0644")

\* the environment of the CLI: OPENCLAW_STATE_DIR set or not
Env(stateDirSet) == [stateDirSet |-> stateDirSet, agentDirs |-> <<MAIN_AUTH_PATH, WORKER_AUTH_PATH>>]

Tree(config, e, mainAuth, workerAuth, payload, envFile) ==
    [p \in Paths |->
        CASE p = CONFIG_PATH -> File("config", config, "0644")
          [] p = MAIN_AUTH_PATH -> mainAuth
          [] p = WORKER_AUTH_PATH -> workerAuth
          [] p = resolveFileSource(config, e).path -> payload
          [] p = ENV_PATH -> envFile
          [] OTHER -> NoFile]

\* the auth stores of the main and the worker agent
AuthChoices ==
    {<<NoFile, NoFile>>} \cup {<<ma, wa>> : ma \in MainAuthChoices \ {NoFile}, wa \in WorkerAuthChoices}

\* the rest of the world: skill key, file source, state dir, payload file, .env file
RestChoices ==
    {[skill |-> Str(<<"sk-skill">>), fileSource |-> NoFileSource, stateDirSet |-> FALSE,
      payload |-> NoFile, envFile |-> NoFile],
     [skill |-> Undef, fileSource |-> NoFileSource, stateDirSet |-> TRUE,
      payload |-> SeedPayload, envFile |-> SeedEnvFile],
     [skill |-> Str(<<"sk-skill">>), fileSource |-> CustomSource, stateDirSet |-> TRUE,
      payload |-> NoFile, envFile |-> SeedEnvFile],
     [skill |-> Undef, fileSource |-> CustomSource, stateDirSet |-> FALSE,
      payload |-> SeedPayload, envFile |-> NoFile]}

\* the worlds a run starts in: the files and the environment
Worlds ==
    {[disk |-> Tree(Config(pk, r.skill, gc, r.fileSource), Env(r.stateDirSet),
                    au[1], au[2], r.payload, r.envFile),
      env |-> Env(r.stateDirSet)] :
        pk \in ProviderKeyChoices, gc \in GoogleChatChoices, au \in AuthChoices, r \in RestChoices}

ToolOutcomes == {"ok", "failed"}
RunOptions == [scrubEnv : BOOLEAN, tool : ToolOutcomes]

planOptions(o, e) ==
    [env |-> e, scrubEnv |-> o.scrubEnv, agentDirs |-> e.agentDirs, tool |-> o.tool]

\* --------------------------------------------------- reference resolver

\* what sops prints for the encrypted file: a JSON object (root: its leaves
\* by path), or some other JSON value
DecryptedObject(root) == [t |-> "obj", c |-> <<"payload">>, root |-> root]

\* decryptSopsJsonFile: the parsed output of the tool, or its error;
\* tool is [kind, value]: how the subprocess ends in this run
decryptSopsJsonFile(tool) ==
    CASE tool.kind = "ok" -> [ok |-> TRUE, value |-> tool.value]
      [] tool.kind = "timeout" -> [ok |-> FALSE, error |-> "sops decrypt timed out"]
      [] tool.kind = "missing" -> [ok |-> FALSE, error |-> "sops binary not found in PATH"]
      [] OTHER -> [ok |-> FALSE, error |-> "sops decrypt failed for path"]

\* a check that lets any parsed JSON value through
payloadUnchecked(decrypted) ==
    IF ~decrypted.ok THEN [state |-> "rejected", error |-> decrypted.error]
    ELSE [state |-> "fulfilled", payload |-> decrypted.value]

\* the promise resolveFileSecretPayload caches, once the tool has ended:
\* decryptSopsJsonFile(...).then(payload => isRecord(payload) or throw)
payloadPromise(decrypted) ==
    IF ~decrypted.ok THEN [state |-> "rejected", error |-> decrypted.error]
    ELSE IF ~isRecord(decrypted.value)
    THEN [state |-> "rejected",
          error |-> "sops decrypt failed: decrypted payload is not a JSON object"]
    ELSE [state |-> "fulfilled", payload |-> decrypted.value]

\* SecretRefResolveCache.fileSecretsPromise: none, pending or settled
NoPromise == [state |-> "none"]
PendingPromise == [state |-> "pending"]

\* a cache that forgets a decrypt that failed and starts another
resolveFileSecretPayloadForgettingFailure(fileSource, cache) ==
    IF ~fileSource.present
    THEN [step |-> "throw", error |-> "Secret reference source \"file\" is not configured"]
    ELSE IF fileSource.type # "sops"
    THEN [step |-> "throw", error |-> "Unsupported secrets.sources.file.type"]
    ELSE IF cache.state \in {"pending", "fulfilled"} THEN [step |-> "await"]
    ELSE [step |-> "decrypt"]

\* a cache that is consulted only once the payload has arrived
resolveFileSecretPayloadCachingPayload(fileSource, cache) ==
    IF ~fileSource.present
    THEN [step |-> "throw", error |-> "Secret reference source \"file\" is not configured"]
    ELSE IF fileSource.type # "sops"
    THEN [step |-> "throw", error |-> "Unsupported secrets.sources.file.type"]
    ELSE IF cache.state = "fulfilled" THEN [step |-> "await"]
    ELSE [step |-> "decrypt"]

\* resolveFileSecretPayload up to its await: it throws, awaits the cached
\* promise, or starts the decrypt and caches its promise
resolveFileSecretPayload(fileSource, cache) ==
    IF ~fileSource.present
    THEN [step |-> "throw", error |-> "Secret reference source \"file\" is not configured"]
    ELSE IF fileSource.type # "sops"
    THEN [step |-> "throw", error |-> "Unsupported secrets.sources.file.type"]
    ELSE IF cache.state # "none" THEN [step |-> "await"]
    ELSE [step |-> "decrypt"]

\* options.env?.[id] ?? process.env[id]
envLookup(e, id) == IF id \in DOMAIN e THEN e[id] ELSE Undef
envValueOf(options, id) ==
    IF envLookup(options.env, id) # Undef THEN envLookup(options.env, id)
    ELSE envLookup(options.processEnv, id)

\* a resolver that turns to the file source when the variable is missing
resolveSecretRefValueFallingBack(ref, options) ==
    IF trim(ref.id) = <<>>
    THEN [step |-> "throw", error |-> "Secret reference id is empty.", touched |-> {}]
    ELSE IF ref.source = "env" /\ isNonEmptyString(envValueOf(options, trim(ref.id)))
    THEN [step |-> "return", value |-> envValueOf(options, trim(ref.id)), touched |-> {"env"}]
    ELSE resolveFileSecretPayload(options.fileSource, options.cache) @@ [touched |-> {"env", "file"}]

\* resolveSecretRefValue up to its first await. touched: what it read, the
\* environment or the file source
resolveSecretRefValue(ref, options) ==
    IF trim(ref.id) = <<>>
    THEN [step |-> "throw", error |-> "Secret reference id is empty.", touched |-> {}]
    ELSE IF ref.source = "env"
    THEN IF isNonEmptyString(envValueOf(options, trim(ref.id)))
         THEN [step |-> "return", value |-> envValueOf(options, trim(ref.id)), touched |-> {"env"}]
         ELSE [step |-> "throw", error |-> "Environment variable is missing or empty.",
               touched |-> {"env"}]
    ELSE IF ref.source = "file"
    THEN resolveFileSecretPayload(options.fileSource, options.cache) @@ [touched |-> {"file"}]
    ELSE [step |-> "throw", error |-> "Unsupported secret source", touched |-> {}]

\* readJsonPointer with onMissing = "throw"
readJsonPointerOrThrow(root, pointer) ==
    IF pointer # <<>> /\ Head(pointer) # "/"
    THEN [step |-> "throw", error |-> "JSON pointer must start with /"]
    ELSE IF readJsonPointer(root, pointer) = Undef
    THEN [step |-> "throw", error |-> "JSON pointer segment does not exist"]
    ELSE [step |-> "return", value |-> readJsonPointer(root, pointer)]

\* the leaves of a decrypted value: none unless it is an object
rootOf(payload) == IF "root" \in DOMAIN payload THEN payload.root ELSE EmptyObject

\* resolveSecretRefValue after the await on the payload promise
resolveSecretRefValueResumed(ref, promise) ==
    IF promise.state = "rejected" THEN [step |-> "throw", error |-> promise.error]
    ELSE readJsonPointerOrThrow(rootOf(promise.payload), trim(ref.id))

\* a check that accepts whatever was resolved
resolveSecretRefStringUnchecked(resolved) == resolved

\* resolveSecretRefString: the resolved value must be a non-empty string
resolveSecretRefString(resolved) ==
    IF resolved.step = "return" /\ ~isNonEmptyString(resolved.value)
    THEN [step |-> "throw", error |-> "resolved to a non-string or empty value"]
    ELSE resolved

\* ----------------------------------------------------- snapshot builder

SECRETS_REF_OVERRIDES_PLAINTEXT == "SECRETS_REF_OVERRIDES_PLAINTEXT"

\* A site that carries a SecretRef: its kind, the index a of its auth store
\* (0: the config), its index i there, the ref, and whether a plaintext
\* sibling stands beside the ref.
Site(kind, a, i, ref, plain) == [kind |-> kind, a |-> a, i |-> i, ref |-> ref, plain |-> plain]

apiKeySites(entries, kind) ==
    [k \in 1..Len(entries) |->
        IF isSecretRef(entries[k].apiKey) THEN <<Site(kind, 0, k, entries[k].apiKey, FALSE)>>
        ELSE <<>>]

\* serviceAccountRef, or a ref held by serviceAccount itself
serviceAccountSite(account, i) ==
    IF isSecretRef(account.serviceAccountRef)
    THEN <<Site("serviceAccount", 0, i, account.serviceAccountRef,
                account.serviceAccount # Undef /\ ~isSecretRef(account.serviceAccount))>>
    ELSE IF isSecretRef(account.serviceAccount)
    THEN <<Site("serviceAccount", 0, i, account.serviceAccount, FALSE)>>
    ELSE <<>>

googleChatSites(googlechat) ==
    IF ~googlechat.present THEN <<>>
    ELSE <<serviceAccountSite(googlechat, 0)>>
         \o [k \in 1..Len(googlechat.accounts) |-> serviceAccountSite(googlechat.accounts[k], k)]

profileSite(profile, a, i) ==
    IF profile.type = "api_key" /\ isSecretRef(profile.keyRef)
    THEN <<Site("key", a, i, profile.keyRef, isNonEmptyString(profile.key))>>
    ELSE IF profile.type = "token" /\ isSecretRef(profile.tokenRef)
    THEN <<Site("token", a, i, profile.tokenRef, isNonEmptyString(profile.token))>>
    ELSE <<>>

authStoreSites(authStores) ==
    [a \in 1..Len(authStores) |->
        [k \in 1..Len(authStores[a].store.profiles) |->
            profileSite(authStores[a].store.profiles[k], a, k)]]

RECURSIVE Flatten(_)
Flatten(seqs) == IF seqs = <<>> THEN <<>> ELSE Head(seqs) \o Flatten(Tail(seqs))

\* the sites in the order of discovery: the config, then the auth stores
collectSites(config, authStores) ==
    Flatten(apiKeySites(config.providers, "provider"))
    \o Flatten(apiKeySites(config.skills, "skill"))
    \o Flatten(googleChatSites(config.googlechat))
    \o Flatten([a \in 1..Len(authStores) |-> Flatten(authStoreSites(authStores)[a])])

\* loadAuthStore for each agent directory; an absent store yields no entry
RECURSIVE loadAuthStores(_, _)
loadAuthStores(dsk, agentDirs) ==
    IF agentDirs = <<>> THEN <<>>
    ELSE (IF dsk[Head(agentDirs)].k = "auth"
          THEN <<[agentDir |-> Head(agentDirs), store |-> dsk[Head(agentDirs)].v]>>
          ELSE <<>>)
         \o loadAuthStores(dsk, Tail(agentDirs))

\* a builder that saves the store an agent inherits from the main agent
diskWithInheritedStores(dsk, agentDirs) ==
    [p \in DOMAIN dsk |->
        IF (\E k \in 1..Len(agentDirs) : agentDirs[k] = p) /\ ~Exists(dsk[p])
        THEN dsk[MAIN_AUTH_PATH] ELSE dsk[p]]

\* the disk after the auth stores were loaded: nothing is persisted
diskAfterLoading(dsk, agentDirs) == dsk

\* an assignment that puts the value in place and leaves the ref beside it
assignSiteKeepingRef(snap, site, value) ==
    CASE site.kind = "provider" -> [snap EXCEPT !.config.providers[site.i].apiKey = value]
      [] site.kind = "skill" -> [snap EXCEPT !.config.skills[site.i].apiKey = value]
      [] site.kind = "serviceAccount" /\ site.i = 0 ->
            [snap EXCEPT !.config.googlechat.serviceAccount = value]
      [] site.kind = "serviceAccount" /\ site.i > 0 ->
            [snap EXCEPT !.config.googlechat.accounts[site.i].serviceAccount = value]
      [] site.kind = "key" -> [snap EXCEPT !.authStores[site.a].store.profiles[site.i].key = value]
      [] site.kind = "token" -> [snap EXCEPT !.authStores[site.a].store.profiles[site.i].token = value]

\* the resolved string replaces the ref of the site in the copy
assignSite(snap, site, value) ==
    CASE site.kind = "provider" -> [snap EXCEPT !.config.providers[site.i].apiKey = value]
      [] site.kind = "skill" -> [snap EXCEPT !.config.skills[site.i].apiKey = value]
      [] site.kind = "serviceAccount" /\ site.i = 0 ->
            [snap EXCEPT !.config.googlechat.serviceAccount = value,
                         !.config.googlechat.serviceAccountRef = Undef]
      [] site.kind = "serviceAccount" /\ site.i > 0 ->
            [snap EXCEPT !.config.googlechat.accounts[site.i].serviceAccount = value,
                         !.config.googlechat.accounts[site.i].serviceAccountRef = Undef]
      [] site.kind = "key" ->
            [snap EXCEPT !.authStores[site.a].store.profiles[site.i].key = value,
                         !.authStores[site.a].store.profiles[site.i].keyRef = Undef]
      [] site.kind = "token" ->
            [snap EXCEPT !.authStores[site.a].store.profiles[site.i].token = value,
                         !.authStores[site.a].store.profiles[site.i].tokenRef = Undef]

\* a builder that warns at every site it resolves
warnAtEverySite(warnings, site) ==
    Append(warnings, [code |-> SECRETS_REF_OVERRIDES_PLAINTEXT, site |-> <<site.kind, site.a, site.i>>])

\* the ref wins over a plaintext sibling, with a warning that names the site
warnIfOverridden(warnings, site) ==
    IF site.plain
    THEN Append(warnings, [code |-> SECRETS_REF_OVERRIDES_PLAINTEXT, site |-> <<site.kind, site.a, site.i>>])
    ELSE warnings

\* a site is resolved: its value is assigned and the override is warned of
resolveSite(snap, site, value) ==
    [assignSite(snap, site, value) EXCEPT !.warnings = warnIfOverridden(@, site)]

\* ------------------------------------------------------------------ state

VARIABLES
    disk,       \* the files: path -> file
    backups,    \* <stateDir>/backups/secrets-migrate: backup id -> [entries, complete]
    clock,      \* the wall clock as the last write run read it, in seconds
    env,        \* the process environment of the CLI
    mig,        \* the write run in progress
    outcome,    \* what the last finished operation returned or threw
    ghost,      \* history: the disk when the last apply began, its targets, the ids issued
    execCalls,  \* the sops invocations of the last migration run: runExec's argument lists
    active,     \* the activator's slot: the active snapshot, or Absent
    degraded,   \* the activator's degraded flag
    events,     \* the system events emitted so far, in order
    phase,      \* the gateway: "startup", "running" or "failed"
    reload,     \* each reload trigger: idle, or preparing a snapshot
    built,      \* the number of snapshots built so far
    lastGood,   \* history: the snapshot of the last successful activation; cleared since?
    lastCall,   \* the last activator call: what it was and what its caller got
    served,     \* what the accessors hand to readers: the config and the auth stores
    prep,       \* the prepareSnapshot call in progress, or its result
    enc,        \* the encryptSopsJsonFile call in progress and the files of its directory
    wizard      \* the last API key flow of the wizard: its calls in order and its result

migVars == <<disk, backups, clock, env, mig, outcome, ghost, execCalls>>
actVars == <<active, degraded, events, phase, reload, built, lastGood, lastCall, served>>
prepVars == <<prep, enc, wizard>>
vars == <<disk, backups, clock, env, mig, outcome, ghost, execCalls,
          active, degraded, events, phase, reload, built, lastGood, lastCall, served, prep, enc, wizard>>

Idle == [pc |-> "idle"]
NoBackups == [a \in {} |-> NoFile]

Absent == 0
Reloaders == {"hot-apply", "rpc"}

\* the accessors serve no snapshot: loadConfig and ensureAuthProfileStore read the disk
NothingServed == [config |-> Absent, authStores |-> Absent]

\* the activator before the gateway starts
InitActivator ==
    /\ active = Absent
    /\ degraded = FALSE
    /\ events = <<>>
    /\ phase = "startup"
    /\ reload = [r \in Reloaders |-> [pc |-> "idle", snapshot |-> Absent]]
    /\ built = 0
    /\ lastGood = [snapshot |-> Absent, cleared |-> FALSE]
    /\ lastCall = [op |-> "none", ok |-> TRUE, thrown |-> FALSE]
    /\ served = NothingServed

\* the worlds a run starts in, the number of applies that are followed and
\* the backup roots earlier runs may have left
InitMigrationFrom(worlds, limit, roots) ==
    /\ \E w \in worlds : disk = w.disk /\ env = w.env
    /\ backups \in roots
    /\ clock = 0
    /\ mig = Idle
    /\ outcome = [op |-> "none", ok |-> TRUE]
    /\ execCalls = <<>>
    /\ ghost = [applies |-> 0, limit |-> limit, issued |-> {}, afterRollback |-> FALSE,
                pre |-> disk, targets |-> <<>>, backupId |-> BackupId(0, 0),
                succeeded |-> FALSE]

InitMigrationWithin(worlds, limit) == InitMigrationFrom(worlds, limit, {NoBackups})

InitMigration(worlds) == InitMigrationWithin(worlds, MaxApplies)

\* no snapshot is being built
PrepIdle == [pc |-> "idle"]
\* no file is being encrypted
EncIdle == [pc |-> "idle"]

\* no API key flow has run
NoFlow == [pc |-> "idle"]

InitPrepare == prep = PrepIdle /\ enc = EncIdle /\ wizard = NoFlow

Init == InitActivator /\ InitMigration(Worlds) /\ InitPrepare

\* what runSecretsMigration returns or throws without write
dryRunOutcome(plan) ==
    IF plan.ok
    THEN [op |-> "dry-run", ok |-> TRUE, changed |-> plan.changed, counters |-> plan.counters]
    ELSE [op |-> "dry-run", ok |-> FALSE, error |-> plan.error]

\* runSecretsMigration without write: plan and report
DryRun(o) ==
    /\ mig.pc = "idle"
    /\ disk' = diskAfterPlanning(disk, buildMigrationPlan(disk, planOptions(o, env)))
    /\ outcome' = dryRunOutcome(buildMigrationPlan(disk, planOptions(o, env)))
    /\ UNCHANGED <<backups, clock, env, mig, ghost>>
    /\ execCalls' = planningCalls(disk, planOptions(o, env))
    /\ UNCHANGED <<actVars, prepVars>>

\* an apply that makes and prunes a backup also when the plan changes nothing
beginApplyUnchangedToo(plan, backupId) ==
    IF ~plan.ok
    THEN /\ outcome' = [op |-> "write", ok |-> FALSE, error |-> plan.error, stage |-> "plan"]
         /\ UNCHANGED <<backups, mig, ghost>>
    ELSE IF ~plan.changed
    THEN /\ outcome' = [op |-> "write", ok |-> TRUE, changed |-> FALSE,
                        counters |-> plan.counters]
         /\ backups' = pruneOldBackups(
                           [a \in DOMAIN backups \cup {backupId} |->
                               IF a = backupId THEN [entries |-> <<>>, complete |-> TRUE]
                               ELSE backups[a]])
         /\ UNCHANGED <<mig, ghost>>
    ELSE /\ ghost.applies < ghost.limit
         /\ mig' = [pc |-> applyPhases[1], plan |-> plan, backupId |-> backupId,
                    i |-> 1, k |-> 1]
         /\ backups' = [a \in DOMAIN backups \cup {backupId} |->
                           IF a = backupId THEN [entries |-> <<>>, complete |-> FALSE]
                           ELSE backups[a]]
         /\ ghost' = [applies |-> ghost.applies + 1, limit |-> ghost.limit,
                      issued |-> ghost.issued \cup {backupId},
                      afterRollback |-> outcome.op = "rollback" /\ outcome.ok,
                      pre |-> disk,
                      targets |-> plan.backupTargets, backupId |-> backupId,
                      succeeded |-> FALSE]
         /\ outcome' = [op |-> "write", ok |-> TRUE, stage |-> "running"]

\* applyMigrationPlan up to its first step: nothing to do when the plan
\* changes nothing, else a fresh backup id and its directory
beginApply(plan, backupId) ==
    IF ~plan.ok
    THEN /\ outcome' = [op |-> "write", ok |-> FALSE, error |-> plan.error, stage |-> "plan"]
         /\ UNCHANGED <<backups, mig, ghost>>
    ELSE IF ~plan.changed
    THEN /\ outcome' = [op |-> "write", ok |-> TRUE, changed |-> FALSE,
                        counters |-> plan.counters]
         /\ UNCHANGED <<backups, mig, ghost>>
    ELSE /\ ghost.applies < ghost.limit
         /\ mig' = [pc |-> applyPhases[1], plan |-> plan, backupId |-> backupId,
                    i |-> 1, k |-> 1]
         /\ backups' = [a \in DOMAIN backups \cup {backupId} |->
                           IF a = backupId THEN [entries |-> <<>>, complete |-> FALSE]
                           ELSE backups[a]]
         /\ ghost' = [applies |-> ghost.applies + 1, limit |-> ghost.limit,
                      issued |-> ghost.issued \cup {backupId},
                      afterRollback |-> outcome.op = "rollback" /\ outcome.ok,
                      pre |-> disk,
                      targets |-> plan.backupTargets, backupId |-> backupId,
                      succeeded |-> FALSE]
         /\ outcome' = [op |-> "write", ok |-> TRUE, stage |-> "running"]

\* runSecretsMigration with write, up to the first step of applyMigrationPlan
WriteRun(o, now) ==
    /\ mig.pc = "idle"
    /\ clock' = now
    /\ disk' = diskAfterPlanning(disk, buildMigrationPlan(disk, planOptions(o, env)))
    /\ beginApply(buildMigrationPlan(disk, planOptions(o, env)),
                  resolveUniqueBackupId(backups, now))
    /\ UNCHANGED env
    /\ execCalls' = planningCalls(disk, planOptions(o, env))
    /\ UNCHANGED <<actVars, prepVars>>

\* createBackupManifest, one target at a time; the manifest is written last
BackupStep ==
    /\ mig.pc = "backup"
    /\ LET targets == mig.plan.backupTargets
           entry == backupEntry(disk, targets[mig.i])
           last == mig.i = Len(targets)
       IN /\ backups' = [backups EXCEPT ![mig.backupId] =
                            [entries |-> Append(@.entries, entry), complete |-> last]]
          /\ mig' = IF last THEN [mig EXCEPT !.pc = phaseAfter("backup")]
                    ELSE [mig EXCEPT !.i = @ + 1]
    /\ UNCHANGED <<disk, clock, env, outcome, ghost>>
    /\ UNCHANGED execCalls
    /\ UNCHANGED <<actVars, prepVars>>

\* createBackupManifest throws: applyMigrationPlan has no handler around it
BackupFail ==
    /\ mig.pc = "backup"
    /\ mig' = Idle
    /\ outcome' = [op |-> "write", ok |-> FALSE, error |-> "backup failed", stage |-> "backup"]
    /\ UNCHANGED <<disk, backups, clock, env, ghost>>
    /\ UNCHANGED execCalls
    /\ UNCHANGED <<actVars, prepVars>>

\* one write of the plan succeeds
WriteStep ==
    /\ mig.pc = "write"
    /\ LET steps == applySteps(mig.plan)
           step == steps[mig.k]
       IN /\ disk' = [disk EXCEPT ![stepPath(mig.plan, step)] = stepFile(mig.plan, step)]
          /\ mig' = IF mig.k = Len(steps) THEN [mig EXCEPT !.pc = phaseAfter("write")]
                    ELSE [mig EXCEPT !.k = @ + 1]
    /\ UNCHANGED <<backups, clock, env, outcome, ghost>>
    /\ execCalls' = callsAfterStep(execCalls, mig.plan, applySteps(mig.plan)[mig.k])
    /\ UNCHANGED <<actVars, prepVars>>

\* the message of the wrapped error; the backup id follows it
ROLLED_BACK_ERROR == "Secrets migration failed and was rolled back from backup"

\* one write of the plan throws: the catch restores and rethrows, wrapped
WriteFail(failure) ==
    /\ mig.pc = "write"
    /\ LET steps == applySteps(mig.plan)
           step == steps[mig.k]
           left == [disk EXCEPT ![stepPath(mig.plan, step)] =
                       failedStepFile(disk, mig.plan, step, failure)]
       IN /\ failure \in stepFailures(step)
          /\ disk' = rollBackFailedApply(left, backups[mig.backupId].entries)
          /\ outcome' = [op |-> "write", ok |-> FALSE, stage |-> "write",
                         error |-> ROLLED_BACK_ERROR,
                         backupId |-> mig.backupId, step |-> step.kind, failure |-> failure]
    /\ mig' = Idle
    /\ UNCHANGED <<backups, clock, env, ghost>>
    /\ execCalls' = callsAfterStep(execCalls, mig.plan, applySteps(mig.plan)[mig.k])
    /\ UNCHANGED <<actVars, prepVars>>

\* the writes are done: prune and return
Finish ==
    /\ mig.pc = "prune"
    /\ backups' = pruneOldBackups(backups)
    /\ outcome' = [op |-> "write", ok |-> TRUE, changed |-> TRUE, backupId |-> mig.backupId,
                   counters |-> mig.plan.counters, changedFiles |-> mig.plan.backupTargets]
    /\ ghost' = [ghost EXCEPT !.succeeded = TRUE]
    /\ mig' = Idle
    /\ UNCHANGED <<disk, clock, env>>
    /\ UNCHANGED execCalls
    /\ UNCHANGED <<actVars, prepVars>>

\* the process is killed in the middle of a write run
Kill ==
    /\ mig.pc # "idle"
    /\ mig' = Idle
    /\ outcome' = [op |-> "killed", ok |-> FALSE, stage |-> mig.pc]
    /\ UNCHANGED <<disk, backups, clock, env, ghost>>
    /\ UNCHANGED execCalls
    /\ UNCHANGED <<actVars, prepVars>>

\* rollbackSecretsMigration; `again` records that the call repeats the one before
Rollback(backupId) ==
    /\ mig.pc = "idle"
    /\ IF backupId \in DOMAIN backups /\ backups[backupId].complete
       THEN LET entries == backups[backupId].entries
            IN /\ disk' = restoreFromManifest(disk, entries)
               /\ outcome' = [op |-> "rollback", ok |-> TRUE, backupId |-> backupId,
                              again |-> outcome.op = "rollback" /\ outcome.ok
                                           /\ outcome.backupId = backupId,
                              restoredFiles |-> Cardinality({i \in 1..Len(entries) : entries[i].existed}),
                              deletedFiles |-> Cardinality({i \in 1..Len(entries) : ~entries[i].existed})]
       ELSE /\ disk' = disk
            /\ outcome' = [op |-> "rollback", ok |-> FALSE, backupId |-> backupId,
                           error |-> "manifest not found"]
    /\ backups' = backupsAfterRollback(backups, backupId)
    /\ UNCHANGED <<clock, env, mig, ghost>>
    /\ UNCHANGED execCalls
    /\ UNCHANGED <<actVars, prepVars>>

\* a backup id that names no backup
MISSING_BACKUP_ID == BackupId(MaxClock + 1, 0)

Next ==
    \/ \E o \in RunOptions : DryRun(o)
    \/ \E o \in RunOptions, now \in clock..MaxClock : WriteRun(o, now)
    \/ BackupStep
    \/ BackupFail
    \/ WriteStep
    \/ \E f \in {"untouched", "written", "partial"} : WriteFail(f)
    \/ Finish
    \/ Kill
    \/ \E id \in DOMAIN backups \cup {MISSING_BACKUP_ID} : Rollback(id)

Spec == Init /\ [][Next]_vars

\* ------------------------------------------------- migration: properties

TargetsAsBeforeApply ==
    \A i \in 1..Len(ghost.targets) : disk[ghost.targets[i]] = ghost.pre[ghost.targets[i]]

\* C1: when a write step of applyMigrationPlan fails, whichever step it is
\* and however it fails, the error thrown is the wrapped "rolled back from
\* backup <backupId>" error and every backup target is as it was before the
\* apply: its old content if it existed, absent if it did not.
C1_FailedWriteIsRolledBack ==
    (mig.pc = "idle" /\ outcome.op = "write" /\ ~outcome.ok /\ outcome.stage = "write")
    => /\ TargetsAsBeforeApply
       /\ outcome.error = ROLLED_BACK_ERROR
       /\ outcome.backupId = ghost.backupId

\* the env write, the last step, stops half way after the payload file was created
C1_Witness ==
    /\ mig.pc = "idle" /\ outcome.op = "write" /\ ~outcome.ok /\ outcome.stage = "write"
    /\ outcome.step = "env" /\ outcome.failure = "partial"
    /\ Len(ghost.targets) >= 4
    /\ \E i \in 1..Len(ghost.targets) : ~Exists(ghost.pre[ghost.targets[i]])

ManifestCoversTargets(backupId) ==
    /\ backups[backupId].complete
    /\ [i \in 1..Len(backups[backupId].entries) |-> backups[backupId].entries[i].path] = ghost.targets

\* C2: during an apply no file differs from what it was when the apply began
\* unless the manifest is complete and lists every backup target; a run that
\* ends while the manifest is incomplete has modified no file.
C2_NoWriteBeforeManifest ==
    /\ (mig.pc # "idle" /\ disk # ghost.pre) => ManifestCoversTargets(mig.backupId)
    /\ (mig.pc = "idle" /\ outcome.op \in {"write", "killed"} /\ ~outcome.ok
            /\ outcome.stage = "backup")
       => disk = ghost.pre

\* the run is killed after two targets were copied and before the manifest is written
C2_Witness ==
    /\ mig.pc = "idle" /\ outcome.op = "killed" /\ outcome.stage = "backup"
    /\ Len(backups[ghost.backupId].entries) >= 2
    /\ ~backups[ghost.backupId].complete

C4_RollbackIdempotent ==
    [][(mig.pc = "idle" /\ outcome'.op = "rollback")
       => /\ backups' = backups
          /\ ~outcome'.ok => disk' = disk
          /\ (outcome'.ok /\ outcome'.again) => disk' = disk]_vars

\* a rollback that restored and deleted files has been repeated
C4_Witness ==
    /\ outcome.op = "rollback" /\ outcome.ok /\ outcome.again
    /\ outcome.deletedFiles >= 1 /\ outcome.restoredFiles >= 1

\* C5: on the disk a successful apply leaves, buildMigrationPlan plans no
\* change: changed, configChanged and payloadChanged are false, there is no
\* auth store change and no env change, and the six counters are zero.
C5_ReplanChangesNothing ==
    (mig.pc = "idle" /\ outcome.op = "write" /\ outcome.ok /\ outcome.changed)
    => \A scrubEnv \in BOOLEAN :
          LET plan == buildMigrationPlan(disk, planOptions([scrubEnv |-> scrubEnv, tool |-> "ok"], env))
          IN /\ plan.ok
             /\ ~plan.changed /\ ~plan.configChanged /\ ~plan.payloadChanged
             /\ plan.authStoreChanges = <<>>
             /\ ~plan.envChange.present
             /\ plan.counters = ZeroCounters

\* the apply migrated config sites and auth profiles and scrubbed the env file
C5_Witness ==
    /\ mig.pc = "idle" /\ outcome.op = "write" /\ outcome.ok /\ outcome.changed
    /\ outcome.counters.configRefs >= 2
    /\ outcome.counters.authProfileRefs >= 1
    /\ outcome.counters.plaintextRemoved >= 1
    /\ outcome.counters.envEntriesRemoved >= 1

\* C6: a run that only plans (a dry run, or a write run whose plan fails or
\* changes nothing) leaves every file and the backups as they were.
C6_PlanningLeavesDisk ==
    [][(mig.pc = "idle" /\ mig'.pc = "idle" /\ outcome'.op \in {"dry-run", "write"})
       => (disk' = disk /\ backups' = backups)]_vars

\* a dry run reported changes to the config, the auth stores and the env file
C6_Witness ==
    /\ mig.pc = "idle" /\ outcome.op = "dry-run" /\ outcome.ok /\ outcome.changed
    /\ outcome.counters.configRefs >= 1
    /\ outcome.counters.authStoresChanged >= 1
    /\ outcome.counters.envEntriesRemoved >= 1


\* ------------------------------------------------ the snapshot builder runs

NoSnapshot == [config |-> Undef, authStores |-> <<>>, warnings |-> <<>>]

\* prepareSnapshot starts: the config is copied, the auth stores are loaded,
\* the sites are discovered; input is [config, env, processEnv, agentDirs, tool]
beginPrepare(input, authStores) ==
    [pc |-> "running",
     input |-> input,
     sites |-> collectSites(input.config, authStores),
     status |-> [k \in 1..Len(collectSites(input.config, authStores)) |-> "todo"],
     touched |-> [k \in 1..Len(collectSites(input.config, authStores)) |-> {}],
     cache |-> NoPromise,
     decrypts |-> 0,
     snap |-> [config |-> input.config, authStores |-> authStores, warnings |-> <<>>],
     returned |-> NoSnapshot,
     failedAt |-> 0,
     error |-> ""]

\* the options every resolution of the call is given: one shared cache
resolveOptions(p) ==
    [fileSource |-> p.input.config.fileSource, env |-> p.input.env,
     processEnv |-> p.input.processEnv, cache |-> p.cache]

\* the call after the resolution of site k made the step r
afterResolution(p, k, r) ==
    CASE r.step = "return" ->
            [p EXCEPT !.status[k] = "done", !.snap = resolveSite(@, p.sites[k], r.value)]
      [] r.step = "throw" ->
            [p EXCEPT !.pc = "rejected", !.failedAt = k, !.error = r.error]
      [] r.step = "await" -> [p EXCEPT !.status[k] = "waiting"]
      [] r.step = "decrypt" ->
            [p EXCEPT !.status[k] = "waiting", !.cache = PendingPromise, !.decrypts = @ + 1]

\* a call starts when none is running: the first one, or one after a call
\* that returned or rejected
PrepBegin(input) ==
    /\ prep.pc \in {"idle", "returned", "rejected"}
    /\ prep' = beginPrepare(input, loadAuthStores(disk, input.agentDirs))
    /\ disk' = diskAfterLoading(disk, input.agentDirs)
    /\ UNCHANGED <<backups, clock, env, mig, outcome, ghost, execCalls, actVars>>
    /\ UNCHANGED <<enc, wizard>>

\* the resolution of the next site starts and runs up to its first await;
\* the resolutions before it may still wait for the payload
PrepResolve(k) ==
    /\ prep.pc = "running"
    /\ k \in 1..Len(prep.sites)
    /\ prep.status[k] = "todo"
    /\ \A j \in 1..(k - 1) : prep.status[j] # "todo"
    /\ prep' = [afterResolution(prep, k,
                    resolveSecretRefString(resolveSecretRefValue(prep.sites[k].ref, resolveOptions(prep))))
                  EXCEPT !.touched[k] = resolveSecretRefValue(prep.sites[k].ref, resolveOptions(prep)).touched]
    /\ UNCHANGED <<migVars, actVars>>
    /\ UNCHANGED <<enc, wizard>>

\* the sops subprocess ends and the cached promise settles
SopsEnds ==
    /\ prep.pc = "running"
    /\ prep.cache.state = "pending"
    /\ prep' = [prep EXCEPT !.cache = payloadPromise(decryptSopsJsonFile(prep.input.tool))]
    /\ UNCHANGED <<migVars, actVars>>
    /\ UNCHANGED <<enc, wizard>>

\* a resolution that waited for the payload goes on
PrepResume(k) ==
    /\ prep.pc = "running"
    /\ k \in 1..Len(prep.sites)
    /\ prep.status[k] = "waiting"
    /\ prep.cache.state \in {"fulfilled", "rejected"}
    /\ prep' = afterResolution(prep, k,
                   resolveSecretRefString(resolveSecretRefValueResumed(prep.sites[k].ref, prep.cache)))
    /\ UNCHANGED <<migVars, actVars>>
    /\ UNCHANGED <<enc, wizard>>

\* every site is resolved: the snapshot is returned
PrepReturn ==
    /\ prep.pc = "running"
    /\ \A k \in 1..Len(prep.sites) : prep.status[k] = "done"
    /\ prep' = [prep EXCEPT !.pc = "returned", !.returned = prep.snap]
    /\ UNCHANGED <<migVars, actVars>>
    /\ UNCHANGED <<enc, wizard>>

\* ---------------------------------------------------------- the activator

SECRETS_RELOADER_DEGRADED == "SECRETS_RELOADER_DEGRADED"
SECRETS_RELOADER_RECOVERED == "SECRETS_RELOADER_RECOVERED"

MaxSnapshots == 5

\* the activator's state: the slot, the flag and the events it has emitted
Activator == [active |-> active, degraded |-> degraded, events |-> events]

\* a success that announces a recovery every time
activateSucceededAlwaysRecovered(a, snapshot) ==
    [active |-> snapshot, degraded |-> FALSE,
     events |-> Append(a.events, SECRETS_RELOADER_RECOVERED)]

\* activation succeeds: swap, and recover if degraded
activateSucceeded(a, snapshot) ==
    [active |-> snapshot, degraded |-> FALSE,
     events |-> IF a.degraded THEN Append(a.events, SECRETS_RELOADER_RECOVERED) ELSE a.events]

\* a runtime failure that drops the active snapshot
activateFailedDroppingSnapshot(a) ==
    [active |-> Absent, degraded |-> TRUE,
     events |-> IF a.degraded THEN a.events ELSE Append(a.events, SECRETS_RELOADER_DEGRADED)]

\* a runtime failure that announces the degradation every time
activateFailedAlwaysDegraded(a) ==
    [active |-> a.active, degraded |-> TRUE,
     events |-> Append(a.events, SECRETS_RELOADER_DEGRADED)]

\* activation fails during a runtime reload: keep the snapshot, degrade once
activateFailedAtRuntime(a) ==
    [active |-> a.active, degraded |-> TRUE,
     events |-> IF a.degraded THEN a.events ELSE Append(a.events, SECRETS_RELOADER_DEGRADED)]

\* a startup failure handled as a runtime failure is
activateFailedAtStartupDegrading(a) == activateFailedAtRuntime(a)

\* activation fails during startup: nothing becomes active, nothing is emitted
activateFailedAtStartup(a) == a

\* clear(): the slot is emptied
clearActive(a) == [a EXCEPT !.active = Absent]

\* a swap that hands over the config and leaves the auth stores for later
serveConfigOnly(prev, snapshot) == [config |-> snapshot, authStores |-> prev.authStores]

\* the swap of the slot: from the same step on, loadConfig serves the config
\* of the snapshot and ensureAuthProfileStore its auth stores
serveSnapshot(prev, snapshot) == [config |-> snapshot, authStores |-> snapshot]

servedAfter(prev, was, now) ==
    IF now = Absent THEN NothingServed
    ELSE IF now = was THEN prev
    ELSE serveSnapshot(prev, now)

Becomes(a) ==
    /\ active' = a.active
    /\ degraded' = a.degraded
    /\ events' = a.events
    /\ served' = servedAfter(served, active, a.active)

\* startup builds the first snapshot and activates it
StartupSucceed ==
    /\ phase = "startup"
    /\ built' = built + 1
    /\ Becomes(activateSucceeded(Activator, built + 1))
    /\ lastGood' = [snapshot |-> built + 1, cleared |-> FALSE]
    /\ lastCall' = [op |-> "startup", ok |-> TRUE, thrown |-> FALSE]
    /\ phase' = "running"
    /\ UNCHANGED reload
    /\ UNCHANGED <<migVars, prepVars>>

\* startup fails: the error goes to the caller and the gateway does not start
StartupFail ==
    /\ phase = "startup"
    /\ Becomes(activateFailedAtStartup(Activator))
    /\ lastCall' = [op |-> "startup", ok |-> FALSE, thrown |-> TRUE]
    /\ phase' = "failed"
    /\ UNCHANGED <<reload, built, lastGood>>
    /\ UNCHANGED <<migVars, prepVars>>

\* a reload trigger starts to prepare a snapshot
BeginReload(r) ==
    /\ phase = "running"
    /\ reload[r].pc = "idle"
    /\ built < MaxSnapshots
    /\ built' = built + 1
    /\ reload' = [reload EXCEPT ![r] = [pc |-> "preparing", snapshot |-> built + 1]]
    /\ UNCHANGED <<active, degraded, events, phase, lastGood, lastCall, served>>
    /\ UNCHANGED <<migVars, prepVars>>

\* the snapshot is prepared and activated
ReloadSucceed(r) ==
    /\ reload[r].pc = "preparing"
    /\ Becomes(activateSucceeded(Activator, reload[r].snapshot))
    /\ lastGood' = [snapshot |-> reload[r].snapshot, cleared |-> FALSE]
    /\ lastCall' = [op |-> "reload", ok |-> TRUE, thrown |-> FALSE]
    /\ reload' = [reload EXCEPT ![r] = [pc |-> "idle", snapshot |-> Absent]]
    /\ UNCHANGED <<phase, built>>
    /\ UNCHANGED <<migVars, prepVars>>

\* the reload fails: the activator catches the error
ReloadFail(r) ==
    /\ reload[r].pc = "preparing"
    /\ Becomes(activateFailedAtRuntime(Activator))
    /\ lastCall' = [op |-> "reload", ok |-> FALSE, thrown |-> FALSE]
    /\ reload' = [reload EXCEPT ![r] = [pc |-> "idle", snapshot |-> Absent]]
    /\ UNCHANGED <<phase, built, lastGood>>
    /\ UNCHANGED <<migVars, prepVars>>

\* clear(), the teardown of the tests
Clear ==
    /\ phase = "running"
    /\ active # Absent
    /\ Becomes(clearActive(Activator))
    /\ lastGood' = [lastGood EXCEPT !.cleared = TRUE]
    /\ lastCall' = [op |-> "clear", ok |-> TRUE, thrown |-> FALSE]
    /\ UNCHANGED <<phase, reload, built>>
    /\ UNCHANGED <<migVars, prepVars>>

NextAct ==
    \/ StartupSucceed
    \/ StartupFail
    \/ \E r \in Reloaders : BeginReload(r)
    \/ \E r \in Reloaders : ReloadSucceed(r)
    \/ \E r \in Reloaders : ReloadFail(r)
    \/ Clear

InitAct == InitActivator /\ InitMigration({CHOOSE w \in Worlds : TRUE}) /\ InitPrepare

SpecAct == InitAct /\ [][NextAct]_vars

\* ------------------------------------------------- activator: properties

\* C7: the active snapshot is the snapshot of the most recent successful
\* activation, whatever failed since; once the gateway runs the slot is
\* absent only if clear() was called since that activation.
C7_LastKnownGood ==
    /\ active = (IF lastGood.cleared THEN Absent ELSE lastGood.snapshot)
    /\ (phase = "running" /\ ~lastGood.cleared) => active # Absent

\* a reload of a newer snapshot has failed and the older one is still active
C7_Witness ==
    /\ phase = "running" /\ degraded /\ lastCall.op = "reload" /\ ~lastCall.ok
    /\ active # Absent /\ active < built
    /\ \A r \in Reloaders : reload[r].pc = "idle"

FailedReloadStep ==
    /\ lastCall'.op = "reload" /\ ~lastCall'.ok
    /\ \E r \in Reloaders : reload[r].pc = "preparing" /\ reload'[r].pc = "idle"

\* C8: a failed runtime reload leaves the activator degraded; it emits
\* SECRETS_RELOADER_DEGRADED, once, if the activator was not degraded, and
\* emits nothing if it was.
C8_DegradedOncePerTransition ==
    [][FailedReloadStep
       => /\ degraded'
          /\ events' = IF degraded THEN events
                       ELSE Append(events, SECRETS_RELOADER_DEGRADED)]_vars

\* two reloads failed one after the other and one event was emitted
C8_Witness ==
    /\ degraded /\ lastCall.op = "reload" /\ ~lastCall.ok
    /\ active = 1 /\ built = 3
    /\ \A r \in Reloaders : reload[r].pc = "idle"
    /\ events = <<SECRETS_RELOADER_DEGRADED>>

SucceededActivationStep ==
    /\ lastCall'.op \in {"startup", "reload"} /\ lastCall'.ok
    /\ \/ phase = "startup"
       \/ \E r \in Reloaders : reload[r].pc = "preparing" /\ reload'[r].pc = "idle"

EventsAlternate ==
    \A i \in 1..Len(events) :
        events[i] = IF i % 2 = 1 THEN SECRETS_RELOADER_DEGRADED ELSE SECRETS_RELOADER_RECOVERED

\* C9: a successful activation leaves the activator not degraded; it emits
\* SECRETS_RELOADER_RECOVERED, once, if the activator was degraded, and
\* emits nothing if it was not; the events emitted alternate DEGRADED,
\* RECOVERED, DEGRADED, ... from the first.
C9_RecoveredOncePerTransition ==
    /\ []EventsAlternate
    /\ [][SucceededActivationStep
          => /\ ~degraded'
             /\ events' = IF degraded THEN Append(events, SECRETS_RELOADER_RECOVERED)
                          ELSE events]_vars

\* the activator degraded, recovered and degraded again
C9_Witness ==
    /\ Len(events) >= 3
    /\ degraded
    /\ \E r \in Reloaders : reload[r].pc = "preparing"

\* C10: when the activation of startup fails, no snapshot is active, the
\* caller got the error, no event was emitted and degraded is not set.
C10_StartupFailureIsFatal ==
    (lastCall.op = "startup" /\ ~lastCall.ok)
    => /\ active = Absent
       /\ lastCall.thrown
       /\ phase = "failed"
       /\ events = <<>>
       /\ ~degraded

\* the gateway failed to start
C10_Witness ==
    /\ phase = "failed" /\ lastCall.op = "startup" /\ ~lastCall.ok /\ built = 0

\* C11: whatever the interleaving of the activations, a reader is served the
\* config and the auth stores of one and the same snapshot, and it is the
\* snapshot of the activation that came last; the other snapshot is dropped.
C11_ActivateLinearizable ==
    /\ served.config = served.authStores
    /\ served.config = active
    /\ ~lastGood.cleared => served.config = lastGood.snapshot

\* two reloads prepared their snapshots side by side; both activations
\* succeeded, the one of the snapshot built first coming last
C11_Witness ==
    /\ built = 3 /\ active = 2 /\ served = [config |-> 2, authStores |-> 2]
    /\ ~degraded /\ events = <<>>
    /\ lastCall.op = "reload" /\ lastCall.ok
    /\ \A r \in Reloaders : reload[r].pc = "idle"

\* ------------------------------------------- the snapshot builder: inputs

OPENAI_API_KEY == <<"OPENAI_API_KEY">>
GCHAT_SERVICE_ACCOUNT == <<"GCHAT_SERVICE_ACCOUNT">>
GITHUB_PROFILE == <<"gh:default">>

serviceAccountPointer == <<"/", "channels", "/", "googlechat", "/", "serviceAccount">>

\* configs with refs of both sources, with and without a plaintext sibling
PrepConfigs ==
    {Config(pk, sk, gc, fs) :
        pk \in {Ref("env", OPENAI_API_KEY), Ref("file", providerPointer(OPENAI)), Str(<<"sk-plain">>)},
        sk \in {Ref("file", skillPointer(REVIEW_PR)), Undef},
        gc \in {NoGoogleChat,
                GoogleChat(Str(<<"sa-json">>), Ref("file", serviceAccountPointer)),
                GoogleChat(Ref("env", GCHAT_SERVICE_ACCOUNT), Undef)},
        fs \in {NoFileSource, CustomSource}}

\* the caller's env and the process env: every variable set, or
\* OPENAI_API_KEY empty for the caller and the rest left to the process
PrepEnvs ==
    {[env |-> (OPENAI_API_KEY :> Str(<<"sk-env">>)) @@ (GCHAT_SERVICE_ACCOUNT :> Str(<<"sa-env">>)),
      processEnv |-> (OPENAI_API_KEY :> Str(<<"sk-process">>))],
     [env |-> (OPENAI_API_KEY :> Str(<<>>)),
      processEnv |-> (OPENAI_API_KEY :> Str(<<"sk-process">>))
                     @@ (GCHAT_SERVICE_ACCOUNT :> Str(<<"sa-process">>))]}

\* a payload with a string at every pointer the configs use
FullPayload ==
    setJsonPointer(
        setJsonPointer(
            setJsonPointer(
                setJsonPointer(EmptyObject, providerPointer(OPENAI), Str(<<"sk-from-sops">>)),
                skillPointer(REVIEW_PR), Str(<<"sk-skill-from-sops">>)),
            serviceAccountPointer, Str(<<"sa-from-sops">>)),
        authProfilePointer(<<"main">>, GITHUB_PROFILE, "token"), Str(<<"ghp-from-sops">>))

\* a payload with an object where the skill's key should be, and no service account
PartialPayload ==
    setJsonPointer(
        setJsonPointer(
            setJsonPointer(EmptyObject, providerPointer(OPENAI), Str(<<"sk-from-sops">>)),
            skillPointer(REVIEW_PR), Obj(<<"nested">>)),
        authProfilePointer(<<"main">>, GITHUB_PROFILE, "token"), Str(<<"ghp-from-sops">>))

\* how the sops subprocess ends
PrepTools ==
    {[kind |-> "ok", value |-> DecryptedObject(FullPayload)],
     [kind |-> "ok", value |-> DecryptedObject(PartialPayload)],
     [kind |-> "ok", value |-> Arr(<<"not-an-object">>)],
     [kind |-> "timeout", value |-> Undef]}

PrepInputs ==
    {[config |-> c, env |-> e.env, processEnv |-> e.processEnv,
      agentDirs |-> <<MAIN_AUTH_PATH, WORKER_AUTH_PATH>>, tool |-> t] :
        c \in PrepConfigs, e \in PrepEnvs, t \in PrepTools}

\* the main agent's store: a key with its keyRef and a token held by a tokenRef
RefAuthStore ==
    AuthStore(<<Profile(<<"openai:default">>, "api_key", Str(<<"old-openai">>),
                        Ref("env", OPENAI_API_KEY), Undef, Undef),
                Profile(GITHUB_PROFILE, "token", Undef, Undef, Undef,
                        Ref("file", authProfilePointer(<<"main">>, GITHUB_PROFILE, "token")))>>)

\* the disks prepareSnapshot runs on: the worker agent has no store of its own
PrepWorlds ==
    {[disk |-> Tree(Config(EnvRef, Undef, NoGoogleChat, NoFileSource), Env(TRUE),
                    ma, NoFile, NoFile, NoFile),
      env |-> Env(TRUE)] : ma \in {NoFile, RefAuthStore}}

NextPrep ==
    \/ \E input \in PrepInputs : PrepBegin(input)
    \/ \E k \in 1..5 : PrepResolve(k)
    \/ SopsEnds
    \/ \E k \in 1..5 : PrepResume(k)
    \/ PrepReturn

InitPrep == InitActivator /\ InitMigration(PrepWorlds) /\ InitPrepare

SpecPrep == InitPrep /\ [][NextPrep]_vars

\* ---------------------------------------- the snapshot builder: properties

accountHasRef(account) == isSecretRef(account.serviceAccount) \/ isSecretRef(account.serviceAccountRef)

configHasRef(config) ==
    \/ \E k \in 1..Len(config.providers) : isSecretRef(config.providers[k].apiKey)
    \/ \E k \in 1..Len(config.skills) : isSecretRef(config.skills[k].apiKey)
    \/ accountHasRef(config.googlechat)
    \/ \E k \in 1..Len(config.googlechat.accounts) : accountHasRef(config.googlechat.accounts[k])

profileHasRef(profile) ==
    \E f \in {"key", "keyRef", "token", "tokenRef"} : isSecretRef(profile[f])

authStoresHaveRef(authStores) ==
    \E a \in 1..Len(authStores) :
        \E k \in 1..Len(authStores[a].store.profiles) : profileHasRef(authStores[a].store.profiles[k])

\* what the plaintext field of a site holds in a snapshot
siteValue(snap, site) ==
    CASE site.kind = "provider" -> snap.config.providers[site.i].apiKey
      [] site.kind = "skill" -> snap.config.skills[site.i].apiKey
      [] site.kind = "serviceAccount" /\ site.i = 0 -> snap.config.googlechat.serviceAccount
      [] site.kind = "serviceAccount" /\ site.i > 0 ->
            snap.config.googlechat.accounts[site.i].serviceAccount
      [] site.kind = "key" -> snap.authStores[site.a].store.profiles[site.i].key
      [] site.kind = "token" -> snap.authStores[site.a].store.profiles[site.i].token

\* what a ref stands for in the input of the call: the variable of the
\* caller's env or else of the process, or the value at the pointer
referent(input, ref) ==
    IF ref.source = "env"
    THEN (IF envLookup(input.env, ref.id) # Undef THEN envLookup(input.env, ref.id)
          ELSE envLookup(input.processEnv, ref.id))
    ELSE readJsonPointer(rootOf(input.tool.value), ref.id)

PrepSites == 1..Len(prep.sites)

warningsFor(warnings, site) ==
    {w \in 1..Len(warnings) : warnings[w].site = <<site.kind, site.a, site.i>>}

\* C13: in the snapshot returned, a site that had a ref beside a plaintext
\* value holds the resolved value and has exactly one
\* SECRETS_REF_OVERRIDES_PLAINTEXT warning; a site without both has none, and
\* every warning, at any time, names a site that had both.
C13_WarningPerOverride ==
    /\ prep.pc # "idle"
       => \A w \in 1..Len(prep.snap.warnings) :
            /\ prep.snap.warnings[w].code = SECRETS_REF_OVERRIDES_PLAINTEXT
            /\ \E k \in PrepSites : prep.sites[k].plain /\ warningsFor(<<prep.snap.warnings[w]>>, prep.sites[k]) # {}
    /\ prep.pc = "returned"
       => \A k \in PrepSites :
            /\ Cardinality(warningsFor(prep.returned.warnings, prep.sites[k]))
                 = IF prep.sites[k].plain THEN 1 ELSE 0
            /\ prep.sites[k].plain
                 => siteValue(prep.returned, prep.sites[k]) = referent(prep.input, prep.sites[k].ref)

\* a snapshot with two warnings: serviceAccount beside serviceAccountRef and
\* key beside keyRef, next to sites that have a ref only
C13_Witness ==
    /\ prep.pc = "returned"
    /\ Len(prep.returned.warnings) = 2
    /\ \E k \in PrepSites : prep.sites[k].kind = "serviceAccount" /\ prep.sites[k].plain
    /\ \E k \in PrepSites : prep.sites[k].kind = "key" /\ prep.sites[k].plain
    /\ \E k \in PrepSites : ~prep.sites[k].plain

\* the file refs whose resolution has asked for the payload
fileRefsAsking ==
    {k \in PrepSites :
        /\ prep.sites[k].ref.source = "file"
        /\ \/ prep.status[k] \in {"waiting", "done"}
           \/ prep.failedAt = k /\ prep.cache.state # "none"}

\* C14: in one prepareSnapshot call sops decrypt is invoked once, however
\* many file refs ask for the payload and however their resolutions
\* interleave with the decrypt; it is not invoked before a file ref asks.
C14_OneDecryptPerCall ==
    prep.pc # "idle"
    => /\ prep.decrypts <= 1
       /\ fileRefsAsking # {} => prep.decrypts = 1
       /\ fileRefsAsking = {} => prep.decrypts = 0

\* three file refs wait for the payload of the one decrypt, which has not ended
C14_Witness ==
    /\ prep.pc = "running"
    /\ prep.cache.state = "pending"
    /\ prep.decrypts = 1
    /\ Cardinality({k \in PrepSites : prep.status[k] = "waiting"}) >= 3

\* whether the resolution of a ref is bound to fail on this input
refFails(input, ref) ==
    IF ref.source = "env" THEN ~isNonEmptyString(referent(input, ref))
    ELSE \/ ~input.config.fileSource.present
         \/ input.config.fileSource.type # "sops"
         \/ input.tool.kind # "ok"
         \/ ~isRecord(input.tool.value)
         \/ ~isNonEmptyString(referent(input, ref))

payloadIsNoObject(input) ==
    /\ input.config.fileSource.present /\ input.config.fileSource.type = "sops"
    /\ input.tool.kind = "ok" /\ ~isRecord(input.tool.value)

\* C15: a call with a ref that cannot be resolved (variable missing or
\* empty, decrypt failed, payload no object, pointer missing, value no
\* non-empty string) returns no snapshot; a rejected call returned nothing
\* and failed at such a ref; when the payload is no JSON object the error is
\* "sops decrypt failed: decrypted payload is not a JSON object".
C15_AllOrNothing ==
    /\ prep.pc = "returned" => \A k \in PrepSites : ~refFails(prep.input, prep.sites[k].ref)
    /\ (prep.pc = "running" /\ \E k \in PrepSites : refFails(prep.input, prep.sites[k].ref))
         => \E k \in PrepSites : prep.status[k] # "done"
    /\ prep.pc = "rejected"
         => /\ prep.returned = NoSnapshot
            /\ refFails(prep.input, prep.sites[prep.failedAt].ref)
            /\ (prep.sites[prep.failedAt].ref.source = "file" /\ payloadIsNoObject(prep.input))
                 => prep.error = "sops decrypt failed: decrypted payload is not a JSON object"

\* a call was rejected because sops printed an array, after an env ref had been resolved
C15_Witness ==
    /\ prep.pc = "rejected"
    /\ payloadIsNoObject(prep.input)
    /\ prep.error = "sops decrypt failed: decrypted payload is not a JSON object"
    /\ \E k \in PrepSites : prep.status[k] = "done"

\* C16: no step of prepareSnapshot changes a file, an auth store of an agent
\* without one is not created, and the config the caller passed stays as
\* it was while the call runs and when it ends: the resolved values are in
\* the snapshot only.
C16_PrepareWritesNothing ==
    [][prep' # prep
       => /\ disk' = disk
          /\ ~Exists(disk[WORKER_AUTH_PATH]) => ~Exists(disk'[WORKER_AUTH_PATH])
          /\ prep.pc = "running" => prep'.input = prep.input]_vars

\* a snapshot with resolved values was returned; the worker has no store on
\* disk and the main agent's store still holds its refs
C16_Witness ==
    /\ prep.pc = "returned"
    /\ prep.returned.config # prep.input.config
    /\ Len(prep.returned.authStores) = 1
    /\ ~Exists(disk[WORKER_AUTH_PATH])
    /\ disk[MAIN_AUTH_PATH] = RefAuthStore

\* C17: the resolution of an env ref reads the environment only and starts
\* no decrypt, also when the variable is missing; the resolution of a file
\* ref reads no environment variable, also when the file source is not
\* configured or the pointer is missing; each fails with its own error.
C17_SourceTagAuthoritative ==
    prep.pc # "idle"
    => /\ \A k \in PrepSites :
            /\ prep.sites[k].ref.source = "env" => prep.touched[k] \subseteq {"env"}
            /\ prep.sites[k].ref.source = "file" => prep.touched[k] \subseteq {"file"}
       /\ (\A k \in PrepSites : prep.status[k] # "todo" \/ prep.failedAt = k
                                   => prep.sites[k].ref.source = "env")
            => prep.decrypts = 0 /\ prep.cache = NoPromise
       /\ (prep.pc = "rejected" /\ prep.sites[prep.failedAt].ref.source = "env")
            => prep.error = "Environment variable is missing or empty."
       /\ (prep.pc = "rejected" /\ prep.sites[prep.failedAt].ref.source = "file")
            => prep.error # "Environment variable is missing or empty."

\* an env ref failed on an empty variable although the file source is
\* configured and the payload holds a value: no decrypt was started
C17_Witness ==
    /\ prep.pc = "rejected"
    /\ prep.sites[prep.failedAt].ref.source = "env"
    /\ prep.touched[prep.failedAt] = {"env"}
    /\ prep.input.config.fileSource.present
    /\ prep.input.tool.kind = "ok"
    /\ prep.decrypts = 0

\* ------------------------------------------------- planning: specification

\* buildMigrationPlan's result, kept for inspection
planOutcome(plan, scrubEnv) ==
    IF plan.ok
    THEN [op |-> "plan", ok |-> TRUE, scrubEnv |-> scrubEnv, plan |-> plan]
    ELSE [op |-> "plan", ok |-> FALSE, scrubEnv |-> scrubEnv, error |-> plan.error]

\* buildMigrationPlan is called on the files as they are
Plan(o) ==
    /\ mig.pc = "idle"
    /\ disk' = diskAfterPlanning(disk, buildMigrationPlan(disk, planOptions(o, env)))
    /\ outcome' = planOutcome(buildMigrationPlan(disk, planOptions(o, env)), o.scrubEnv)
    /\ UNCHANGED <<backups, clock, env, mig, ghost>>
    /\ execCalls' = planningCalls(disk, planOptions(o, env))
    /\ UNCHANGED <<actVars, prepVars>>

\* <stateDir>/agents holds the directories "main", "worker" and "worker "
PlanEnv(stateDirSet) ==
    [stateDirSet |-> stateDirSet,
     agentDirs |-> <<MAIN_AUTH_PATH, WORKER_AUTH_PATH, PADDED_WORKER_AUTH_PATH>>]

KeyStore(key) ==
    AuthStore(<<Profile(<<"openai:default">>, "api_key", Str(key), Undef, Undef, Undef)>>)

\* the auth stores of the agents "worker" and "worker "
PlanStoreChoices ==
    {<<KeyStore(<<"sk-worker">>), NoFile>>,
     <<NoFile, KeyStore(<<"sk-padded", " ">>)>>,
     <<KeyStore(<<"sk-worker">>), KeyStore(<<"sk-worker">>)>>,
     <<KeyStore(<<"sk-worker">>), KeyStore(<<"sk-padded", " ">>)>>}

PlanWorlds ==
    {[disk |-> [Tree(Config(pk, r.skill, gc, r.fileSource), PlanEnv(r.stateDirSet),
                     ma, st[1], r.payload, r.envFile)
                   EXCEPT ![PADDED_WORKER_AUTH_PATH] = st[2]],
      env |-> PlanEnv(r.stateDirSet)] :
        pk \in ProviderKeyChoices, gc \in GoogleChatChoices, ma \in MainAuthChoices,
        st \in PlanStoreChoices, r \in RestChoices}

NextPlan == \E o \in RunOptions : Plan(o)

InitPlan == InitActivator /\ InitMigration(PlanWorlds) /\ InitPrepare

SpecPlan == InitPlan /\ [][NextPlan]_vars

\* the .env files: up to MaxEnvLines lines, ended by "\n" or by "\r\n",
\* the last line with or without its line end
MaxEnvLines == 3

EnvLineChoices ==
    {<<"OPENAI_API_KEY", "=", "sk">>,
     <<"export", " ", "OPENAI_API_KEY", " ", "=", " ", "\"", "sk", "\"">>,
     <<" ", "ANTHROPIC_API_KEY", "=", "'", "tok", "'", " ">>,
     <<"#", " ", "OPENAI_API_KEY", "=", "sk">>,
     <<>>,
     <<"UNRELATED", "=", "sk">>,
     <<"OPENAI_API_KEY", "=", "\"", "sk", "'">>,
     <<"OPENAI_API_KEY", "=", "sk", " ", "#", "tok">>}

RECURSIVE EnvText(_, _, _)
EnvText(lines, eol, trailing) ==
    IF lines = <<>> THEN <<>>
    ELSE IF Len(lines) = 1 THEN lines[1] \o (IF trailing THEN eol ELSE <<>>)
    ELSE lines[1] \o eol \o EnvText(Tail(lines), eol, trailing)

EnvTexts ==
    {EnvText(lines, eol, trailing) :
        lines \in UNION {[1..n -> EnvLineChoices] : n \in 0..MaxEnvLines},
        eol \in {<<"\n">>, <<"\r", "\n">>}, trailing \in BOOLEAN}

\* a provider key and a skill key that are migrated, or a provider key
\* that is a ref already and no skill key
ScrubConfigs ==
    {Config(Str(<<"sk">>), Str(<<" ", "tok">>), NoGoogleChat, NoFileSource),
     Config(EnvRef, Undef, NoGoogleChat, NoFileSource)}

ScrubWorlds ==
    {[disk |-> Tree(config, Env(TRUE), NoFile, NoFile, NoFile, File("env", text, "0644")),
      env |-> Env(TRUE)] :
        config \in ScrubConfigs, text \in EnvTexts}

InitScrub == InitActivator /\ InitMigration(ScrubWorlds) /\ InitPrepare

SpecScrub == InitScrub /\ [][NextPlan]_vars

\* --------------------------------------------------- planning: properties

\* the site at id holds the ref and the payload holds its original value
refStandsFor(plan, field, id, original) ==
    /\ field = Ref("file", id)
    /\ readJsonPointer(plan.nextPayload, id) = original

apiKeyMigrated(config, plan, section, i, id) ==
    isNonEmptyString(config[section][i].apiKey)
    => refStandsFor(plan, plan.nextConfig[section][i].apiKey, id,
                    Str(trim(config[section][i].apiKey.s)))

serviceAccountMigrated(before, after, plan, id) ==
    (/\ ~isSecretRef(before.serviceAccountRef)
     /\ ~isSecretRef(before.serviceAccount)
     /\ isNonEmptyString(before.serviceAccount)
            \/ (isRecord(before.serviceAccount) /\ objectKeys(before.serviceAccount) # <<>>))
    => /\ after.serviceAccount = Undef
       /\ refStandsFor(plan, after.serviceAccountRef, id,
                       IF isNonEmptyString(before.serviceAccount)
                       THEN Str(trim(before.serviceAccount.s)) ELSE before.serviceAccount)

googleChatMigrated(config, plan) ==
    config.googlechat.present
    => /\ serviceAccountMigrated(config.googlechat, plan.nextConfig.googlechat, plan,
                                 <<"/", "channels", "/", "googlechat", "/", "serviceAccount">>)
       /\ \A i \in 1..Len(config.googlechat.accounts) :
            serviceAccountMigrated(config.googlechat.accounts[i],
                                   plan.nextConfig.googlechat.accounts[i], plan,
                                   accountPointer(config.googlechat.accounts[i].id)
                                       \o <<"/", "serviceAccount">>)

\* the store the plan writes at path
changedStores(plan, path) ==
    {plan.authStoreChanges[k].nextStore :
        k \in {j \in 1..Len(plan.authStoreChanges) : plan.authStoreChanges[j].path = path}}

profileMigrated(before, plan, path) ==
    /\ (before.type = "api_key" /\ ~isSecretRef(before.keyRef) /\ isNonEmptyString(before.key))
         => \E store \in changedStores(plan, path) : \E i \in 1..Len(store.profiles) :
                /\ store.profiles[i].id = before.id
                /\ store.profiles[i].key = Undef
                /\ refStandsFor(plan, store.profiles[i].keyRef,
                                authProfilePointer(deriveAuthStoreScope(path), before.id, "key"),
                                Str(trim(before.key.s)))
    /\ (before.type = "token" /\ ~isSecretRef(before.tokenRef) /\ isNonEmptyString(before.token))
         => \E store \in changedStores(plan, path) : \E i \in 1..Len(store.profiles) :
                /\ store.profiles[i].id = before.id
                /\ store.profiles[i].token = Undef
                /\ refStandsFor(plan, store.profiles[i].tokenRef,
                                authProfilePointer(deriveAuthStoreScope(path), before.id, "token"),
                                Str(trim(before.token.s)))

authStoresMigrated(dsk, config, agentDirs, plan) ==
    \A k \in 1..Len(collectAuthStorePaths(config, agentDirs)) :
        LET path == collectAuthStorePaths(config, agentDirs)[k]
        IN dsk[path].k = "auth"
           => \A i \in 1..Len(dsk[path].v.profiles) :
                profileMigrated(dsk[path].v.profiles[i], plan, path)

\* C18: at the end of planning every site that held a migratable plaintext
\* holds the file ref with the pointer of the site, its plaintext field is
\* gone, and the next payload read at that pointer gives the trimmed
\* original value of that very site; this for all the sites at once.
C18_MigratedSitesStandForTheirValues ==
    (outcome.op = "plan" /\ outcome.ok)
    => /\ \A i \in 1..Len(disk[CONFIG_PATH].v.providers) :
            apiKeyMigrated(disk[CONFIG_PATH].v, outcome.plan, "providers", i,
                           providerPointer(disk[CONFIG_PATH].v.providers[i].id))
       /\ \A i \in 1..Len(disk[CONFIG_PATH].v.skills) :
            apiKeyMigrated(disk[CONFIG_PATH].v, outcome.plan, "skills", i,
                           skillPointer(disk[CONFIG_PATH].v.skills[i].id))
       /\ googleChatMigrated(disk[CONFIG_PATH].v, outcome.plan)
       /\ authStoresMigrated(disk, disk[CONFIG_PATH].v, env.agentDirs, outcome.plan)

\* --------------------------------------------------- env scrub: properties

IsIdentifier(w) == w # <<>> /\ ~IsDigit(w[1]) /\ \A i \in 1..Len(w) : IsWord(w[i])
AllSpace(s) == \A i \in 1..Len(s) : IsSpace(s[i])

\* the text after "=" parses to value: surrounding blanks and one pair of
\* equal surrounding quotes are dropped
parsesTo(rest, value) ==
    \/ \E q \in {"\"", "'"} : trim(rest) = <<q>> \o value \o <<q>>
    \/ /\ trim(rest) = value
       /\ ~\E q \in {"\"", "'"} : value # <<>> /\ Head(value) = q /\ value[Len(value)] = q

\* line is blanks, an optional "export" and blanks, key, blanks, "=", and
\* a rest without line terminator (after its leading blanks) that parses to value
isAssignment(line, key, value) ==
    \E a \in 0..Len(line) :
        /\ AllSpace(SubSeq(line, 1, a))
        /\ \E b \in a..Len(line) :
            /\ \/ b = a
               \/ /\ b > a + 1
                  /\ line[a + 1] = "export"
                  /\ AllSpace(SubSeq(line, a + 2, b))
            /\ b + Len(key) < Len(line)
            /\ SubSeq(line, b + 1, b + Len(key)) = key
            /\ IsIdentifier(key)
            /\ \E d \in (b + Len(key))..(Len(line) - 1) :
                /\ AllSpace(SubSeq(line, b + Len(key) + 1, d))
                /\ line[d + 1] = "="
                /\ ~HasLineTerminator(TrimLeft(SubSeq(line, d + 2, Len(line))))
                /\ parsesTo(SubSeq(line, d + 2, Len(line)), value)

\* a KEY=VALUE line of a known secret variable whose value was migrated
isMigratedSecretLine(line, migratedValues) ==
    \E key \in listKnownSecretEnvVarNames : \E value \in migratedValues :
        isAssignment(line, key, value)

\* the lines of a text: what stands between its line ends "\n" or "\r\n"
RECURSIVE linesOf(_)
linesOf(text) ==
    IF \A i \in 1..Len(text) : text[i] # "\n" THEN <<text>>
    ELSE LET n == CHOOSE i \in 1..Len(text) : text[i] = "\n" /\ \A j \in 1..(i - 1) : text[j] # "\n"
         IN <<IF n > 1 /\ text[n - 1] = "\r" THEN SubSeq(text, 1, n - 2) ELSE SubSeq(text, 1, n - 1)>>
                \o linesOf(SubSeq(text, n + 1, Len(text)))

otherLines(lines, migratedValues) ==
    LET other(line) == ~isMigratedSecretLine(line, migratedValues)
    IN SelectSeq(lines, other)

\* the values planning hands to the scrub
valuesMigrated(dsk, e) ==
    migrateSites(dsk, planOptions([scrubEnv |-> TRUE, tool |-> "ok"], e), dsk[CONFIG_PATH].v,
                 EmptyObject).migratedValues

scrubbedAsClaimed(raw, migratedValues, plan) ==
    LET lines == linesOf(raw)
        kept == otherLines(lines, migratedValues)
    IN IF Len(kept) = Len(lines)
       THEN ~plan.envChange.present /\ plan.counters.envEntriesRemoved = 0
       ELSE /\ plan.envChange.present
            /\ plan.envChange.nextRaw \in {joinLines(kept), joinLines(kept) \o <<"\n">>}
            /\ plan.counters.envEntriesRemoved = Len(lines) - Len(kept)

\* C19: with the scrub enabled, the .env text of the plan is the lines of
\* the file without exactly those that assign, to a known secret variable,
\* a value equal to a migrated one; all the other lines stand unchanged and
\* in their order, and envEntriesRemoved counts the missing lines.
C19_EnvScrubRemovesExactly ==
    (outcome.op = "plan" /\ outcome.ok /\ outcome.scrubEnv /\ disk[ENV_PATH].k = "env")
    => scrubbedAsClaimed(disk[ENV_PATH].v, valuesMigrated(disk, env), outcome.plan)

\* two secret lines were removed around a line of a variable that is no
\* known secret but has the migrated value
C19_Witness ==
    /\ outcome.op = "plan" /\ outcome.ok /\ outcome.scrubEnv
    /\ disk[ENV_PATH].k = "env"
    /\ Len(linesOf(disk[ENV_PATH].v)) = 3
    /\ outcome.plan.counters.envEntriesRemoved = 2
    /\ outcome.plan.envChange.present
    /\ outcome.plan.envChange.nextRaw = <<"UNRELATED", "=", "sk">>

\* ------------------------------------------------------ backups: properties

\* up to MaxBackupRuns applies on a tree whose provider key is plaintext
MaxBackupRuns == 2

BackupWorlds ==
    {[disk |-> Tree(Config(Str(<<" ", "sk-openai">>), r.skill, NoGoogleChat, r.fileSource),
                    Env(r.stateDirSet), NoFile, NoFile, r.payload, r.envFile),
      env |-> Env(r.stateDirSet)] : r \in {c \in RestChoices : c.fileSource = NoFileSource}}

InitBackup == InitActivator /\ InitMigrationWithin(BackupWorlds, MaxBackupRuns) /\ InitPrepare

SpecBackup == InitBackup /\ [][Next]_vars

\* the backup directories the running step may write: its own
ownBackups == IF mig.pc = "idle" THEN {} ELSE {mig.backupId}

SopsConfigFile == File("yaml", <<"creation_rules">>, "0644")

\* trees with and without <configDir>/.sops.yaml and .sops.yml, with and
\* without an encrypted file and a plaintext profile
SopsWorlds ==
    {[disk |-> [Tree(Config(Str(<<" ", "sk-openai">>), r.skill, NoGoogleChat, r.fileSource),
                     Env(r.stateDirSet), ma, NoFile, r.payload, r.envFile)
                   EXCEPT ![SOPS_YAML] = yaml, ![SOPS_YML] = yml],
      env |-> Env(r.stateDirSet)] :
        r \in RestChoices, ma \in MainAuthChoices \ {AuthStore(<<Profile(<<"openai:default">>,
                                    "api_key", Str(<<"sk-old">>), EnvRef, Undef, Undef)>>)},
        yaml \in {NoFile, SopsConfigFile}, yml \in {NoFile, SopsConfigFile}}

InitSops == InitActivator /\ InitMigration(SopsWorlds) /\ InitPrepare

SpecSops == InitSops /\ [][Next]_vars

\* the invocation names its config file as its first two arguments
carriesConfig(call, path) == Len(call.args) >= 2 /\ SubSeq(call.args, 1, 2) = <<"--config", path>>

\* C21: every sops invocation of a migration run, the decrypt of planning
\* and the encrypt of the apply, starts with --config <configDir>/.sops.yaml
\* when that file exists, with --config <configDir>/.sops.yml when only
\* that one exists, and has no --config argument when neither exists; a
\* run that read the encrypted file decrypted it, one that wrote it encrypted it.
C21_SopsConfigOnEveryInvocation ==
    /\ \A i \in 1..Len(execCalls) :
        /\ execCalls[i].bin = "sops"
        /\ Exists(disk[SOPS_YAML]) => carriesConfig(execCalls[i], SOPS_YAML)
        /\ (~Exists(disk[SOPS_YAML]) /\ Exists(disk[SOPS_YML])) => carriesConfig(execCalls[i], SOPS_YML)
        /\ (~Exists(disk[SOPS_YAML]) /\ ~Exists(disk[SOPS_YML]))
             => \A j \in 1..Len(execCalls[i].args) : execCalls[i].args[j] # "--config"
    /\ (mig.pc # "idle" /\ Exists(ghost.pre[mig.plan.secretsFilePath]))
         => \E i \in 1..Len(execCalls) : \E j \in 1..Len(execCalls[i].args) :
                execCalls[i].args[j] = "--decrypt"
    /\ (mig.pc = "prune" /\ mig.plan.payloadChanged)
         => \E i \in 1..Len(execCalls) : \E j \in 1..Len(execCalls[i].args) :
                execCalls[i].args[j] = "--encrypt"

\* a write run decrypted and encrypted with --config .sops.yaml although
\* .sops.yml exists as well
C21_Witness ==
    /\ outcome.op = "write" /\ outcome.ok /\ mig.pc = "idle" /\ ghost.succeeded
    /\ Exists(disk[SOPS_YAML]) /\ Exists(disk[SOPS_YML])
    /\ Len(execCalls) = 2
    /\ execCalls[1].args[3] = "--decrypt"
    /\ execCalls[2].args[3] = "--encrypt"
    /\ carriesConfig(execCalls[1], SOPS_YAML)
    /\ carriesConfig(execCalls[2], SOPS_YAML)

\* --------------------------------------------- backup completeness: properties

isBackupTarget(plan, path) == \E i \in 1..Len(plan.backupTargets) : plan.backupTargets[i] = path

\* C22: every file the apply in progress may write (the encrypted file
\* when the payload changed, the config when it changed, the path of every
\* auth store change, the env file of an env change) is a backup target of
\* its plan; once the manifest is written it has one entry per target that
\* records whether the file existed, and restoring the manifest at any
\* point of the writes gives the files as they were when the apply began.
C22_BackupCompleteness ==
    mig.pc # "idle"
    => /\ mig.plan.payloadChanged => isBackupTarget(mig.plan, mig.plan.secretsFilePath)
       /\ mig.plan.configChanged => isBackupTarget(mig.plan, CONFIG_PATH)
       /\ \A i \in 1..Len(mig.plan.authStoreChanges) :
            isBackupTarget(mig.plan, mig.plan.authStoreChanges[i].path)
       /\ mig.plan.envChange.present => isBackupTarget(mig.plan, mig.plan.envChange.path)
       /\ \A p \in Paths : disk[p] # ghost.pre[p] => isBackupTarget(mig.plan, p)
       /\ mig.pc \in {"write", "prune"}
            => /\ Len(backups[mig.backupId].entries) = Len(mig.plan.backupTargets)
               /\ \A i \in 1..Len(mig.plan.backupTargets) :
                    /\ backups[mig.backupId].entries[i].path = mig.plan.backupTargets[i]
                    /\ backups[mig.backupId].entries[i].existed
                         = Exists(ghost.pre[mig.plan.backupTargets[i]])
               /\ restoreFromManifest(disk, backups[mig.backupId].entries) = ghost.pre

\* the writes of a plan with a payload, config, auth store and env change
\* are done; the encrypted file did not exist when the apply began
C22_Witness ==
    /\ mig.pc = "prune"
    /\ mig.plan.payloadChanged /\ mig.plan.configChanged /\ mig.plan.envChange.present
    /\ Len(mig.plan.authStoreChanges) >= 1
    /\ ~Exists(ghost.pre[mig.plan.secretsFilePath])
    /\ Exists(disk[mig.plan.secretsFilePath])
    /\ disk[ENV_PATH] # ghost.pre[ENV_PATH]

\* ---------------------------------------------------- write order: properties

writeRank(kind) ==
    CASE kind = "payload" -> 1 [] kind = "config" -> 2 [] kind = "auth" -> 3 [] kind = "env" -> 4

\* the file at path is the one the apply in progress has written
writtenByApply(path) == disk[path] # ghost.pre[path]

\* C23: the writes of an apply come in the order encrypted payload, config
\* file, auth stores, env file; so whenever, during the writes, the config
\* or an auth store on disk is the one this apply wrote, the encrypted file
\* on disk holds the payload of the plan if the plan changes it, and the
\* env file is written after the config and every auth store.
C23_PayloadWrittenFirst ==
    mig.pc \in {"write", "prune"}
    => /\ \A a, b \in 1..Len(applySteps(mig.plan)) :
            a < b => writeRank(applySteps(mig.plan)[a].kind) <= writeRank(applySteps(mig.plan)[b].kind)
       /\ \A p \in {CONFIG_PATH} \cup AuthPaths :
            (writtenByApply(p) /\ mig.plan.payloadChanged)
            => disk[mig.plan.secretsFilePath] = File("payload", mig.plan.nextPayload, "0600")
       /\ writtenByApply(ENV_PATH)
            => /\ mig.plan.configChanged => writtenByApply(CONFIG_PATH)
               /\ \A i \in 1..Len(mig.plan.authStoreChanges) :
                    writtenByApply(mig.plan.authStoreChanges[i].path)

\* the encrypted payload is written and the config, which the plan changes,
\* is still the one with the plaintext
C23_Witness ==
    /\ mig.pc = "write"
    /\ mig.plan.payloadChanged /\ mig.plan.configChanged
    /\ Len(mig.plan.authStoreChanges) >= 1
    /\ disk[mig.plan.secretsFilePath] = File("payload", mig.plan.nextPayload, "0600")
    /\ ~writtenByApply(CONFIG_PATH)

\* ------------------------------------------------------ retention: properties

\* the backups of earlier runs: n of them, of the second before the clock
\* starts or of its first second, complete and empty
MaxOldBackups == 21

OldBackups(ts, n) ==
    [a \in {BackupId(ts, k) : k \in 0..(n - 1)} |-> [entries |-> <<>>, complete |-> TRUE]]

OldBackupRoots == {OldBackups(ts, n) : ts \in {-1, 0}, n \in (BACKUP_RETENTION - 2)..MaxOldBackups}

InitRetention ==
    InitActivator /\ InitMigrationFrom(BackupWorlds, MaxBackupRuns, OldBackupRoots) /\ InitPrepare

\* the steps of migration runs; the rollbacks are of the backups of these runs
NextRetention ==
    \/ \E o \in RunOptions : DryRun(o)
    \/ \E o \in RunOptions, now \in clock..MaxClock : WriteRun(o, now)
    \/ BackupStep
    \/ BackupFail
    \/ WriteStep
    \/ \E f \in {"untouched", "written", "partial"} : WriteFail(f)
    \/ Finish
    \/ Kill
    \/ \E id \in ghost.issued \cup {MISSING_BACKUP_ID} : Rollback(id)

SpecRetention == InitRetention /\ [][NextRetention]_vars

\* C24: the step that ends a successful apply leaves at most
\* BACKUP_RETENTION backups: the greatest ids of those there were, all of
\* them when there were no more, the backup of this apply among them; no
\* other step, a failed and rolled back apply included, removes a backup.
C24_BackupRetention ==
    [][IF mig.pc = "prune" /\ mig'.pc = "idle" /\ outcome'.op = "write"
       THEN /\ outcome'.ok
            /\ DOMAIN backups' \subseteq DOMAIN backups
            /\ Cardinality(DOMAIN backups') <= BACKUP_RETENTION
            /\ Cardinality(DOMAIN backups) >= BACKUP_RETENTION
                 => Cardinality(DOMAIN backups') = BACKUP_RETENTION
            /\ Cardinality(DOMAIN backups) <= BACKUP_RETENTION => backups' = backups
            /\ \A a \in DOMAIN backups', b \in DOMAIN backups \ DOMAIN backups' : BackupIdLess(b, a)
            /\ \A a \in DOMAIN backups' : backups'[a] = backups[a]
            /\ mig.backupId \in DOMAIN backups'
       ELSE DOMAIN backups \subseteq DOMAIN backups']_vars

\* ------------------------------------------- encryptSopsJsonFile: the steps

\* <path>.<pid>.<uuid>.plain.tmp and <path>.<pid>.<uuid>.enc.tmp, next to the
\* target: the pid and the uuid make them names no other call uses
TMP_PLAIN == "plain.tmp"
TMP_ENCRYPTED == "enc.tmp"

\* the mode of a file that writeFileSync or the tool creates: 0666 less the
\* umask of the process, for the umasks 000, 022 and 077
CreateModes == {"0666", "0644", "0600"}

\* what runExec's failure is: the binary is missing, the tool timed out, or
\* it exited with an error
ExecFailures == {"ENOENT", "timed out", "exit"}

\* what a failed write leaves behind: nothing, or a file with part of the data
FailedWrites == {"absent", "partial"}

EncryptParams ==
    [path : {STATE_SECRETS_PATH},
     payload : {EmptyObject, SeedPayload.v},
     configPath : {"", SOPS_YAML},
     target : {NoFile, SeedPayload},
     createMode : CreateModes]

\* the file a failed write leaves
leftByFailedWrite(left, intended) ==
    IF left = "partial" THEN [intended EXCEPT !.v = "partial"] ELSE NoFile

\* isTimeoutError and toSopsError: the error the catch block throws
toSopsError(err) ==
    CASE err = "timed out" -> "sops encrypt timed out"
      [] err = "ENOENT" -> "missingBinaryMessage"
      [] OTHER -> "sops encrypt failed"

\* the names are chosen; nothing is written yet
EncBegin(params) ==
    /\ enc.pc = "idle"
    /\ enc' = [pc |-> "writePlain", params |-> params, error |-> "",
               call |-> <<>>,
               files |-> (TMP_PLAIN :> NoFile) @@ (TMP_ENCRYPTED :> NoFile)
                           @@ (params.path :> params.target)]
    /\ UNCHANGED <<migVars, actVars, prep, wizard>>

\* fs.writeFileSync(tmpPlain, JSON, "utf8"): the file is created with the
\* default mode and holds the plaintext
EncWritePlain ==
    /\ enc.pc = "writePlain"
    /\ enc' = [enc EXCEPT !.pc = "chmodPlain",
                          !.files[TMP_PLAIN] = File("json", enc.params.payload, enc.params.createMode)]
    /\ UNCHANGED <<migVars, actVars, prep, wizard>>

\* fs.writeFileSync throws: the statement is before the try, the error
\* leaves the function as it is
EncWritePlainFail(left) ==
    /\ enc.pc = "writePlain"
    /\ enc' = [enc EXCEPT !.pc = "thrown", !.error = "write",
                          !.files[TMP_PLAIN] =
                              leftByFailedWrite(left, File("json", enc.params.payload, enc.params.createMode))]
    /\ UNCHANGED <<migVars, actVars, prep, wizard>>

\* fs.chmodSync(tmpPlain, 0o600)
EncChmodPlain ==
    /\ enc.pc = "chmodPlain"
    /\ enc' = [enc EXCEPT !.pc = "exec", !.files[TMP_PLAIN].mode = "0600"]
    /\ UNCHANGED <<migVars, actVars, prep, wizard>>

\* fs.chmodSync(tmpPlain, 0o600) throws, before the try
EncChmodPlainFail ==
    /\ enc.pc = "chmodPlain"
    /\ enc' = [enc EXCEPT !.pc = "thrown", !.error = "chmod"]
    /\ UNCHANGED <<migVars, actVars, prep, wizard>>

\* runExec("sops", args) resolves: the tool wrote the encrypted tempfile
EncExec ==
    /\ enc.pc = "exec"
    /\ enc' = [enc EXCEPT !.pc = "rename",
                          !.call = encryptCall(enc.params.path, enc.params.configPath),
                          !.files[TMP_ENCRYPTED] = File("sops", enc.params.payload, enc.params.createMode)]
    /\ UNCHANGED <<migVars, actVars, prep, wizard>>

\* a tool that is told to write over the target: what it wrote when it
\* failed is at the path
EncExecFailInPlace(err, left) ==
    /\ enc.pc = "exec"
    /\ err = "ENOENT" => left = "absent"
    /\ enc' = [enc EXCEPT !.pc = "finally", !.error = toSopsError(err),
                          !.call = encryptCall(enc.params.path, enc.params.configPath),
                          !.files[enc.params.path] =
                              leftByFailedWrite(left, File("sops", enc.params.payload, enc.params.createMode))]
    /\ UNCHANGED <<migVars, actVars, prep, wizard>>

\* runExec rejects: the tool may have written part of its output
EncExecFail(err, left) ==
    /\ enc.pc = "exec"
    /\ err = "ENOENT" => left = "absent"
    /\ enc' = [enc EXCEPT !.pc = "finally", !.error = toSopsError(err),
                          !.call = encryptCall(enc.params.path, enc.params.configPath),
                          !.files[TMP_ENCRYPTED] =
                              leftByFailedWrite(left, File("sops", enc.params.payload, enc.params.createMode))]
    /\ UNCHANGED <<migVars, actVars, prep, wizard>>

\* fs.renameSync(tmpEncrypted, params.path)
EncRename ==
    /\ enc.pc = "rename"
    /\ enc' = [enc EXCEPT !.pc = "chmodTarget",
                          !.files[enc.params.path] = enc.files[TMP_ENCRYPTED],
                          !.files[TMP_ENCRYPTED] = NoFile]
    /\ UNCHANGED <<migVars, actVars, prep, wizard>>

\* fs.renameSync throws: nothing moved
EncRenameFail ==
    /\ enc.pc = "rename"
    /\ enc' = [enc EXCEPT !.pc = "finally", !.error = toSopsError("rename")]
    /\ UNCHANGED <<migVars, actVars, prep, wizard>>

\* fs.chmodSync(params.path, 0o600)
EncChmodTarget ==
    /\ enc.pc = "chmodTarget"
    /\ enc' = [enc EXCEPT !.pc = "finally", !.files[enc.params.path].mode = "0600"]
    /\ UNCHANGED <<migVars, actVars, prep, wizard>>

\* fs.chmodSync(params.path, 0o600) throws
EncChmodTargetFail ==
    /\ enc.pc = "chmodTarget"
    /\ enc' = [enc EXCEPT !.pc = "finally", !.error = toSopsError("chmod")]
    /\ UNCHANGED <<migVars, actVars, prep, wizard>>

\* the finally block: fs.rmSync of both tempfiles with force; then the
\* function returns, or throws what the catch block made of the error
EncFinally ==
    /\ enc.pc = "finally"
    /\ enc' = [enc EXCEPT !.pc = IF enc.error = "" THEN "returned" ELSE "thrown",
                          !.files[TMP_PLAIN] = NoFile,
                          !.files[TMP_ENCRYPTED] = NoFile]
    /\ UNCHANGED <<migVars, actVars, prep, wizard>>

NextEncrypt ==
    \/ \E params \in EncryptParams : EncBegin(params)
    \/ EncWritePlain
    \/ \E left \in FailedWrites : EncWritePlainFail(left)
    \/ EncChmodPlain
    \/ EncChmodPlainFail
    \/ EncExec
    \/ \E err \in ExecFailures, left \in FailedWrites : EncExecFail(err, left)
    \/ EncRename
    \/ EncRenameFail
    \/ EncChmodTarget
    \/ EncChmodTargetFail
    \/ EncFinally

InitEncrypt == InitActivator /\ InitMigration({CHOOSE w \in Worlds : TRUE}) /\ InitPrepare

SpecEncrypt == InitEncrypt /\ [][NextEncrypt]_vars

\* C25: while encryptSopsJsonFile runs and after it, the plaintext tempfile
\* exists only with mode 0600; once the function has returned or thrown,
\* whatever step failed, neither the plaintext tempfile nor the encrypted
\* tempfile exists.
C25_TempfileHygiene ==
    enc.pc # "idle"
    => /\ Exists(enc.files[TMP_PLAIN]) => enc.files[TMP_PLAIN].mode = "0600"
       /\ enc.pc \in {"returned", "thrown"}
            => ~Exists(enc.files[TMP_PLAIN]) /\ ~Exists(enc.files[TMP_ENCRYPTED])

\* ------------------------------------------------- the API key flows: values

ENV_KEY == <<"env-key">>
MINIMAX_API_KEY == "MINIMAX_API_KEY"

\* secretInputMode: undefined, or one of the two modes
NoMode == "undefined"

\* a variable name as the two patterns spell it: [A-Z][A-Z0-9_]*
isEnvVarName(piece) == piece \in {MINIMAX_API_KEY, "HF_TOKEN"}

\* String.prototype.toLowerCase, piece by piece
lowerPiece(piece) ==
    CASE piece = "HUGGINGFACE" -> "huggingface"
      [] piece = "MiniMax" -> "minimax"
      [] piece = MINIMAX_API_KEY -> "minimax_api_key"
      [] OTHER -> piece

toLowerCase(str) == [i \in 1..Len(str) |-> lowerPiece(str[i])]

\* a value is truthy unless it is undefined or the empty string
truthy(v) == v # Undef /\ v # Str(<<>>)

\* String(value ?? "")
stringOf(v) == IF v = Undef THEN <<>> ELSE v.s

\* INLINE_ENV_REF_RE = /^\$\{([A-Z][A-Z0-9_]*)\}$/
INLINE_ENV_REF_RE(str) ==
    Len(str) = 3 /\ str[1] = "${" /\ isEnvVarName(str[2]) /\ str[3] = "}"

\* ENV_SOURCE_LABEL_RE = /(?:^|:\s)([A-Z][A-Z0-9_]*)$/ on the trimmed label:
\* the variable the label ends with, or undefined
extractEnvVarFromSourceLabel(source) ==
    LET label == trim(source)
        n == Len(label)
    IN IF /\ n >= 1
          /\ isEnvVarName(label[n])
          /\ n = 1 \/ (n >= 3 /\ label[n - 2] = ":" /\ IsSpace(label[n - 1]))
       THEN Str(<<label[n]>>)
       ELSE Undef

normalizeTokenProviderInput(tokenProvider) ==
    LET normalized == toLowerCase(trim(stringOf(tokenProvider)))
    IN IF normalized = <<>> THEN Undef ELSE Str(normalized)

\* the calls a flow makes, in order, and what it returns
Flow(calls, result) == [calls |-> calls, result |-> result]
setCredentialCall(apiKey, mode) == [fn |-> "setCredential", value |-> apiKey, mode |-> mode]
prompterCall(fn, title) == [fn |-> fn, value |-> title, mode |-> NoMode]

\* normalize as every caller in the tests passes it: (value) => value.trim()
normalizeKey(value) == Str(trim(value))

\* resolveSecretInputModeForEnvSelection: the explicit mode, "plaintext"
\* with a prompter that has no select, else what the user selects
resolveSecretInputModeForEnvSelection(params) ==
    IF params.secretInputMode # NoMode THEN [calls |-> <<>>, mode |-> params.secretInputMode]
    ELSE IF params.prompter.select = "absent" THEN [calls |-> <<>>, mode |-> "plaintext"]
    ELSE [calls |-> <<prompterCall("select", "mode")>>, mode |-> params.prompter.select]

\* a confirmed env key stored as it is, whatever the mode
explicitEnvRefPlain(envKey, mode) == Str(envKey.apiKey)

\* the credential stored for a confirmed env key
explicitEnvRef(envKey, mode) ==
    IF mode = "ref"
    THEN LET envVar == extractEnvVarFromSourceLabel(envKey.source)
         IN IF truthy(envVar) THEN Str(<<"${">> \o envVar.s \o <<"}">>) ELSE Str(envKey.apiKey)
    ELSE Str(envKey.apiKey)

maybeApplyApiKeyFromOption(params) ==
    LET tokenProvider == normalizeTokenProviderInput(params.tokenProvider)
        expected == {normalizeTokenProviderInput(e) : e \in params.expectedProviders} \ {Undef}
    IN IF ~truthy(params.token) \/ tokenProvider = Undef \/ tokenProvider \notin expected
       THEN Flow(<<>>, Undef)
       ELSE Flow(<<setCredentialCall(normalizeKey(params.token.s), params.secretInputMode)>>,
                 normalizeKey(params.token.s))

\* the text prompt and what follows it
promptForKey(params) ==
    LET apiKey == normalizeKey(stringOf(params.prompter.text))
        refNote == IF params.secretInputMode = "ref" /\ ~INLINE_ENV_REF_RE(apiKey.s)
                   THEN <<prompterCall("note", "Ref mode note")>> ELSE <<>>
    IN Flow(<<prompterCall("text", "promptMessage")>> \o refNote
                \o <<setCredentialCall(apiKey, params.secretInputMode)>>,
            apiKey)

\* the confirmed env key: the mode is resolved, the credential stored, the key returned
useExistingKey(params) ==
    LET m == resolveSecretInputModeForEnvSelection(params)
    IN Flow(<<prompterCall("confirm", "envLabel")>> \o m.calls
                \o <<setCredentialCall(explicitEnvRef(params.envKey, m.mode), m.mode)>>,
            Str(params.envKey.apiKey))

\* resolveEnvApiKey(params.provider) is params.envKey: a key and the label
\* of where it comes from, or nothing
ensureApiKeyFromEnvOrPrompt(params) ==
    IF params.envKey.found
    THEN IF params.prompter.confirm
         THEN useExistingKey(params)
         ELSE LET f == promptForKey(params)
              IN Flow(<<prompterCall("confirm", "envLabel")>> \o f.calls, f.result)
    ELSE promptForKey(params)

ensureApiKeyFromOptionEnvOrPrompt(params) ==
    LET o == maybeApplyApiKeyFromOption(params)
    IN IF truthy(o.result) THEN o
       ELSE LET note == IF params.noteMessage THEN <<prompterCall("note", "noteTitle")>> ELSE <<>>
                f == ensureApiKeyFromEnvOrPrompt(params)
            IN Flow(o.calls \o note \o f.calls, f.result)

\* ------------------------------------------------- the API key flows: inputs

NoEnvKey == [found |-> FALSE, apiKey |-> <<>>, source |-> <<>>]
EnvKey(apiKey, source) == [found |-> TRUE, apiKey |-> apiKey, source |-> source]

\* what resolveEnvApiKey may return: no key, a key of the process
\* environment, a key of the shell environment, a key that comes from no
\* variable
EnvKeys ==
    {NoEnvKey,
     EnvKey(ENV_KEY, <<"env", ":", " ", MINIMAX_API_KEY>>),
     EnvKey(ENV_KEY, <<"shell", " ", "env", ":", " ", MINIMAX_API_KEY>>),
     EnvKey(ENV_KEY, <<"gcloud", " ", "adc">>)}

\* the prompter of the tests: fixed answers; select may be missing
Prompters ==
    [confirm : BOOLEAN,
     text : {Str(<<" ", "prompted-key", " ">>), Str(<<"${", MINIMAX_API_KEY, "}">>)},
     select : {"absent", "plaintext", "ref"}]

OptionTokens == {Undef, Str(<<>>), Str(<<" ">>), Str(<<" ", "opts-key", " ">>)}
TokenProviders == {Undef, Str(<<" ", "MiniMax", " ">>), Str(<<"openai">>)}

FlowParams ==
    [token : OptionTokens,
     tokenProvider : TokenProviders,
     expectedProviders : {{Str(<<"minimax">>)}},
     secretInputMode : {NoMode, "plaintext", "ref"},
     envKey : EnvKeys,
     prompter : Prompters,
     noteMessage : BOOLEAN]

\* ensureApiKeyFromOptionEnvOrPrompt is called and returns
EnsureFromOption(params) ==
    /\ wizard.pc = "idle"
    /\ wizard' = [pc |-> "option", params |-> params,
                  flow |-> ensureApiKeyFromOptionEnvOrPrompt(params)]
    /\ UNCHANGED <<migVars, actVars, prep, enc>>

\* ensureApiKeyFromEnvOrPrompt is called and returns
EnsureFromEnv(params) ==
    /\ wizard.pc = "idle"
    /\ params.token = Undef /\ params.tokenProvider = Undef /\ ~params.noteMessage
    /\ wizard' = [pc |-> "env", params |-> params, flow |-> ensureApiKeyFromEnvOrPrompt(params)]
    /\ UNCHANGED <<migVars, actVars, prep, enc>>

NextWizard ==
    \/ \E params \in FlowParams : EnsureFromOption(params)
    \/ \E params \in FlowParams : EnsureFromEnv(params)

SpecWizard == InitEncrypt /\ [][NextWizard]_vars

\* the calls of a flow that are calls of fn
callsOf(flow, fn) == {i \in 1..Len(flow.calls) : flow.calls[i].fn = fn}

\* the option token is taken: it is non-empty and its provider, trimmed and
\* lower-cased, is an expected provider
optionTokenApplies(params) ==
    /\ params.token # Undef /\ params.token.s # <<>>
    /\ params.tokenProvider # Undef
    /\ Str(toLowerCase(trim(params.tokenProvider.s))) \in params.expectedProviders

\* C26: ensureApiKeyFromOptionEnvOrPrompt takes the option token when it is
\* non-empty and of an expected provider: the normalized token is the one
\* credential stored and the result, and note, confirm and text are not
\* called. Otherwise the note, when one is given, is the first call; with an
\* env key that the user confirms text is not called; text is called only
\* with no env key or after the user declined it.
C26_OptionEnvPromptPrecedence ==
    wizard.pc = "option"
    => LET p == wizard.params
           f == wizard.flow
       IN IF optionTokenApplies(p)
          THEN /\ f.calls = <<setCredentialCall(normalizeKey(p.token.s), p.secretInputMode)>>
               /\ f.result = normalizeKey(p.token.s)
          ELSE /\ p.noteMessage => f.calls[1] = prompterCall("note", "noteTitle")
               /\ (p.envKey.found /\ p.prompter.confirm) => callsOf(f, "text") = {}
               /\ callsOf(f, "text") # {}
                    => \/ ~p.envKey.found /\ callsOf(f, "confirm") = {}
                       \/ /\ ~p.prompter.confirm
                          /\ \E i \in callsOf(f, "confirm") : \A j \in callsOf(f, "text") : i < j

SpecFileSource == Init /\ [][NextPlan]_vars

\* secrets.sources.file of a config is a sops source whose path resolves to path
isSopsSourceAt(config, path) ==
    /\ config.fileSource.present
    /\ config.fileSource.type = "sops"
    /\ isNonEmptyString(config.fileSource.path)
    /\ resolveUserPath(pathOf(config.fileSource.path)) = path

\* C28: a plan that introduces a file-source ref (configRefs +
\* authProfileRefs > 0) has in nextConfig a secrets.sources.file that is a
\* sops source whose path resolves to plan.secretsFilePath, whatever the
\* files were: also with no file source configured and a default encrypted
\* file that holds the values already (secretsWritten = 0).
C28_RefsHaveFileSource ==
    (outcome.op = "plan" /\ outcome.ok
        /\ outcome.plan.counters.configRefs + outcome.plan.counters.authProfileRefs > 0)
    => isSopsSourceAt(outcome.plan.nextConfig, outcome.plan.secretsFilePath)

\* the config the plan was made from: planning writes no file
plannedConfig == disk[CONFIG_PATH].v

\* a sops file source with a non-empty path is configured
sopsSourceConfigured(config) ==
    /\ config.fileSource.present
    /\ config.fileSource.type = "sops"
    /\ isNonEmptyString(config.fileSource.path)

\* C29: a plan that wrote a secret to the payload (secretsWritten > 0) with
\* no sops file source configured has secrets.sources.file = { type: "sops",
\* path: <defaultPath>, timeoutMs: 5000 } in nextConfig; a plan made with a
\* sops file source of non-empty path configured leaves secrets.sources.file
\* as it was.
C29_FileSourceSynthesis ==
    (outcome.op = "plan" /\ outcome.ok)
    => /\ (outcome.plan.counters.secretsWritten > 0 /\ ~sopsSourceConfigured(plannedConfig))
            => outcome.plan.nextConfig.fileSource =
                   [present |-> TRUE, type |-> "sops",
                    path |-> Str(<<resolveDefaultSecretsConfigPath(env)>>),
                    timeoutMs |-> DEFAULT_SOPS_TIMEOUT_MS]
       /\ sopsSourceConfigured(plannedConfig)
            => outcome.plan.nextConfig.fileSource = plannedConfig.fileSource

\* a plan wrote secrets with a sops source configured at a path of its own
\* and left the source alone
C29_Witness ==
    /\ outcome.op = "plan" /\ outcome.ok
    /\ outcome.plan.counters.secretsWritten > 0
    /\ sopsSourceConfigured(plannedConfig)
    /\ outcome.plan.secretsFilePath # resolveUserPath(resolveDefaultSecretsConfigPath(env))
    /\ outcome.plan.nextConfig.fileSource = plannedConfig.fileSource

\* ------------------------------------------------ site pointers: properties

MigratedSite(kind, path, name, field) == [kind |-> kind, path |-> path, name |-> name, field |-> field]

\* the apiKey sites of a section that the plan turned into refs, each with
\* the pointer id of its ref
apiKeySitePointers(before, after, section) ==
    {[site |-> MigratedSite(section, CONFIG_PATH, before[section][i].id, "apiKey"),
      id |-> after[section][i].apiKey.id] :
        i \in {j \in 1..Len(before[section]) :
                 ~isSecretRef(before[section][j].apiKey) /\ isSecretRef(after[section][j].apiKey)}}

\* the Google Chat sites the plan turned into refs: the channel and its accounts
googleChatSitePointers(before, after) ==
    {[site |-> MigratedSite("googlechat", CONFIG_PATH, <<>>, "serviceAccount"),
      id |-> after.serviceAccountRef.id] :
        x \in {y \in {1} : /\ before.present
                           /\ ~isSecretRef(before.serviceAccountRef)
                           /\ isSecretRef(after.serviceAccountRef)}}
    \cup
    {[site |-> MigratedSite("googlechat account", CONFIG_PATH, before.accounts[i].id, "serviceAccount"),
      id |-> after.accounts[i].serviceAccountRef.id] :
        i \in {j \in 1..Len(before.accounts) :
                 /\ before.present
                 /\ ~isSecretRef(before.accounts[j].serviceAccountRef)
                 /\ isSecretRef(after.accounts[j].serviceAccountRef)}}

\* the key and token sites of one changed auth store that the plan turned into refs
authStoreSitePointers(before, change) ==
    {[site |-> MigratedSite("auth", change.path, before.profiles[i].id, "key"),
      id |-> change.nextStore.profiles[i].keyRef.id] :
        i \in {j \in 1..Len(before.profiles) :
                 ~isSecretRef(before.profiles[j].keyRef) /\ isSecretRef(change.nextStore.profiles[j].keyRef)}}
    \cup
    {[site |-> MigratedSite("auth", change.path, before.profiles[i].id, "token"),
      id |-> change.nextStore.profiles[i].tokenRef.id] :
        i \in {j \in 1..Len(before.profiles) :
                 ~isSecretRef(before.profiles[j].tokenRef) /\ isSecretRef(change.nextStore.profiles[j].tokenRef)}}

\* every site the plan migrated, with the pointer id the plan gave it
sitePointers(dsk, plan) ==
    apiKeySitePointers(dsk[CONFIG_PATH].v, plan.nextConfig, "providers")
    \cup apiKeySitePointers(dsk[CONFIG_PATH].v, plan.nextConfig, "skills")
    \cup googleChatSitePointers(dsk[CONFIG_PATH].v.googlechat, plan.nextConfig.googlechat)
    \cup UNION {authStoreSitePointers(dsk[plan.authStoreChanges[k].path].v, plan.authStoreChanges[k]) :
                   k \in 1..Len(plan.authStoreChanges)}

\* C30: the sites one plan migrates (provider ids, skill keys, Google Chat
\* accounts, and the key and token of each profile of each auth store) get
\* pointer ids that differ from site to site, so that no secret of the plan
\* is written over another; two auth stores never share a scope.
C30_SitePointersInjective ==
    (outcome.op = "plan" /\ outcome.ok)
    => /\ \A x, y \in sitePointers(disk, outcome.plan) : x.site # y.site => x.id # y.id
       /\ \A a, b \in 1..Len(outcome.plan.authStoreChanges) :
            outcome.plan.authStoreChanges[a].path # outcome.plan.authStoreChanges[b].path
            => deriveAuthStoreScope(outcome.plan.authStoreChanges[a].path)
                   # deriveAuthStoreScope(outcome.plan.authStoreChanges[b].path)

\* ------------------------------------------- migrated values: properties

\* one secret "sk" at a site of each class: a provider, a skill, the Google
\* Chat channel, a Google Chat account, an api_key profile, a token profile
SiteWorldChoices ==
    {[config |-> Config(Str(<<"sk">>), Undef, NoGoogleChat, NoFileSource), auth |-> NoFile],
     [config |-> Config(EnvRef, Str(<<"sk", " ">>), NoGoogleChat, NoFileSource), auth |-> NoFile],
     [config |-> Config(EnvRef, Undef, GoogleChat(Str(<<"sk">>), Undef), NoFileSource), auth |-> NoFile],
     [config |-> Config(EnvRef, Undef,
                        [GoogleChat(Undef, Undef) EXCEPT !.accounts =
                            <<[id |-> <<"work">>, serviceAccount |-> Str(<<" ", "sk">>),
                               serviceAccountRef |-> Undef]>>],
                        NoFileSource),
      auth |-> NoFile],
     [config |-> Config(EnvRef, Undef, NoGoogleChat, NoFileSource),
      auth |-> AuthStore(<<Profile(<<"openai:default">>, "api_key", Str(<<"sk">>), Undef, Undef, Undef)>>)],
     [config |-> Config(EnvRef, Undef, NoGoogleChat, NoFileSource),
      auth |-> AuthStore(<<Profile(<<"gh:default">>, "token", Undef, Undef, Str(<<"sk">>), Undef)>>)]}

\* .env files of one or two lines: the secret under an allow-listed name,
\* the secret under another name, another value under an allow-listed name
SiteEnvLines ==
    {<<"OPENAI_API_KEY", "=", "sk">>, <<"UNRELATED", "=", "sk">>,
     <<"ANTHROPIC_API_KEY", "=", "'", "tok", "'">>}

SiteEnvTexts ==
    {EnvText(lines, <<"\n">>, trailing) :
        lines \in UNION {[1..n -> SiteEnvLines] : n \in 1..2}, trailing \in BOOLEAN}

SiteWorlds ==
    {[disk |-> Tree(w.config, Env(TRUE), w.auth, NoFile, NoFile, File("env", text, "0644")),
      env |-> Env(TRUE)] :
        w \in SiteWorldChoices, text \in SiteEnvTexts}

InitSites == InitActivator /\ InitMigration(SiteWorlds) /\ InitPrepare

SpecSites == InitSites /\ [][NextPlan]_vars

\* the plaintext strings of the sites the plan migrated, as the payload holds them
migratedPlaintexts(dsk, plan) ==
    {v.s : v \in {w \in {readJsonPointer(plan.nextPayload, x.id) : x \in sitePointers(dsk, plan)} :
                    w.t = "str"}}

\* the lines of the .env file as the plan leaves it
plannedEnvLines(dsk, plan) ==
    LET text == IF plan.envChange.present THEN plan.envChange.nextRaw ELSE dsk[ENV_PATH].v
        lines == linesOf(text)
    IN {lines[i] : i \in 1..Len(lines)}

\* C31: with env scrubbing on, an allow-listed .env line whose value is the
\* plaintext of a site the plan migrated (a provider or skill apiKey, a
\* Google Chat serviceAccount string, an auth profile key or token) is not
\* in the .env file the plan leaves.
C31_EveryMigratedValueScrubbed ==
    (outcome.op = "plan" /\ outcome.ok /\ outcome.scrubEnv /\ disk[ENV_PATH].k = "env")
    => \A i \in 1..Len(linesOf(disk[ENV_PATH].v)) :
          isMigratedSecretLine(linesOf(disk[ENV_PATH].v)[i], migratedPlaintexts(disk, outcome.plan))
          => linesOf(disk[ENV_PATH].v)[i] \notin plannedEnvLines(disk, outcome.plan)

\* ------------------------------------------------ counters: properties

\* a tree with plaintext at sites of every class
ManySites ==
    [config |-> Config(Str(<<" ", "sk-openai">>), Str(<<"sk-skill">>),
                       GoogleChat(Obj(<<"sa">>), Undef), NoFileSource),
     auth |-> AuthStore(<<Profile(<<"openai:default">>, "api_key", Str(<<"sk-profile">>), Undef, Undef, Undef),
                          Profile(<<"gh:default">>, "token", Undef, Undef, Str(<<"ghp-token">>), Undef)>>)]

\* a tree whose sites hold a ref and, next to it, the plaintext; the apiKey
\* of its skill is white space
RefSites ==
    [config |-> Config(EnvRef, Str(<<" ">>),
                       [GoogleChat(Str(<<"sa-json">>), EnvRef) EXCEPT !.accounts =
                           <<[id |-> <<"work">>, serviceAccount |-> Obj(<<"sa">>),
                              serviceAccountRef |-> Ref("file", <<"/", "sa">>)],
                             [id |-> <<"home">>, serviceAccount |-> EnvRef,
                              serviceAccountRef |-> Undef]>>],
                       NoFileSource),
     auth |-> AuthStore(<<Profile(<<"openai:default">>, "api_key", Str(<<"sk-old">>), EnvRef, Undef, Undef),
                          Profile(<<"gh:default">>, "token", Undef, Undef, Str(<<"ghp-old">>), EnvRef)>>)]

CountWorldChoices == SiteWorldChoices \cup {ManySites, RefSites}

PayloadTree(w, payload, envFile) == Tree(w.config, Env(TRUE), w.auth, NoFile, payload, envFile)

\* the payload an earlier migration of the same tree left
MigratedPayload(w) ==
    File("payload",
         buildMigrationPlan(PayloadTree(w, NoFile, NoFile),
                            planOptions([scrubEnv |-> FALSE, tool |-> "ok"], Env(TRUE))).nextPayload,
         "0600")

\* the same pointers holding other values
StalePayload(w) ==
    File("payload", [q \in DOMAIN MigratedPayload(w).v |-> Str(<<"old">>)], "0600")

\* the encrypted file a planning run finds: none, the provider's key only,
\* every value of the tree, other values at the pointers of the tree
PayloadsFound(w) == {NoFile, SeedPayload, MigratedPayload(w), StalePayload(w)}

CountWorlds ==
    {[disk |-> PayloadTree(w, payload, envFile), env |-> Env(TRUE)] :
        w \in CountWorldChoices, payload \in UNION {PayloadsFound(v) : v \in CountWorldChoices},
        envFile \in {NoFile, SeedEnvFile}}

InitCount == InitActivator /\ InitMigration(CountWorlds) /\ InitPrepare

SpecCount == InitCount /\ [][NextPlan]_vars

\* the payload the plan started from
previousPayloadOf(dsk, plan) ==
    IF Exists(dsk[plan.secretsFilePath]) THEN dsk[plan.secretsFilePath].v ELSE EmptyObject

\* the entry of seq whose id is name
entryNamed(seq, name) == seq[CHOOSE i \in 1..Len(seq) : seq[i].id = name]

\* a secret as the payload gets it: a string trimmed, an object as it is
normalizedSecret(v) == IF v.t = "str" THEN Str(trim(v.s)) ELSE v

\* the value of a site before planning, normalized
plaintextOfSite(dsk, site) ==
    CASE site.kind \in {"providers", "skills"} ->
            normalizedSecret(entryNamed(dsk[CONFIG_PATH].v[site.kind], site.name).apiKey)
      [] site.kind = "googlechat" ->
            normalizedSecret(dsk[CONFIG_PATH].v.googlechat.serviceAccount)
      [] site.kind = "googlechat account" ->
            normalizedSecret(entryNamed(dsk[CONFIG_PATH].v.googlechat.accounts, site.name).serviceAccount)
      [] site.kind = "auth" ->
            normalizedSecret(entryNamed(dsk[site.path].v.profiles, site.name)[site.field])

\* the migrated sites whose pointer held no equal value before planning
sitesToWrite(dsk, plan) ==
    {x \in sitePointers(dsk, plan) :
        readJsonPointer(previousPayloadOf(dsk, plan), x.id) # plaintextOfSite(dsk, x.site)}

\* C32: secretsWritten is the number of migrated sites whose pointer in the
\* payload was absent or held a value not equal to the trimmed value of the
\* site; every migrated site is counted as a ref (configRefs or
\* authProfileRefs) and reads its value at its pointer in the next payload,
\* and a site whose pointer held an equal value leaves the payload as it was:
\* with no site to write the next payload is the previous one.
C32_SecretsWrittenCountsChanges ==
    (outcome.op = "plan" /\ outcome.ok)
    => LET plan == outcome.plan
           sites == sitePointers(disk, plan)
       IN /\ plan.counters.secretsWritten = Cardinality(sitesToWrite(disk, plan))
          /\ plan.counters.configRefs + plan.counters.authProfileRefs = Cardinality(sites)
          /\ \A x \in sites : readJsonPointer(plan.nextPayload, x.id) = plaintextOfSite(disk, x.site)
          /\ sitesToWrite(disk, plan) = {} => plan.nextPayload = previousPayloadOf(disk, plan)
          /\ \A q \in DOMAIN previousPayloadOf(disk, plan) :
                (\A x \in sitesToWrite(disk, plan) :
                    ~IsPrefix(parseJsonPointer(x.id), q) /\ ~IsPrefix(q, parseJsonPointer(x.id)))
                => q \in DOMAIN plan.nextPayload /\ plan.nextPayload[q] = previousPayloadOf(disk, plan)[q]

\* of five migrated sites one found its value in the payload: five refs, four writes
C32_Witness ==
    /\ outcome.op = "plan" /\ outcome.ok
    /\ Cardinality(sitePointers(disk, outcome.plan)) = 5
    /\ outcome.plan.counters.configRefs = 3 /\ outcome.plan.counters.authProfileRefs = 2
    /\ outcome.plan.counters.secretsWritten = 4
    /\ disk[outcome.plan.secretsFilePath] = SeedPayload

\* a Google Chat account, or the channel, holds a ref and a plaintext next to it
refWithPlaintext(account) ==
    /\ isSecretRef(account.serviceAccountRef) \/ isSecretRef(account.serviceAccount)
    /\ account.serviceAccount # Undef
    /\ ~isSecretRef(account.serviceAccount)

\* planning dropped the plaintext of the account and left its ref
plaintextDropped(before, after) ==
    /\ after.serviceAccount = Undef
    /\ after.serviceAccountRef = before.serviceAccountRef

\* the fields of a profile that hold a plaintext next to a ref
refFieldsWithPlaintext(profile) ==
    {f \in {"key", "token"} :
        /\ profile.type = (IF f = "key" THEN "api_key" ELSE "token")
        /\ isSecretRef(profile[IF f = "key" THEN "keyRef" ELSE "tokenRef"])
        /\ isNonEmptyString(profile[f])}

\* the sites of the tree that hold a ref and a plaintext next to it
refSitesWithPlaintext(dsk, agentDirs) ==
    LET config == dsk[CONFIG_PATH].v
        stores == collectAuthStorePaths(config, agentDirs)
    IN {MigratedSite("googlechat", CONFIG_PATH, <<>>, "serviceAccount") :
            x \in {y \in {1} : config.googlechat.present /\ refWithPlaintext(config.googlechat)}}
       \cup {MigratedSite("googlechat account", CONFIG_PATH, config.googlechat.accounts[i].id, "serviceAccount") :
            i \in {j \in 1..Len(config.googlechat.accounts) :
                     config.googlechat.present /\ refWithPlaintext(config.googlechat.accounts[j])}}
       \cup UNION {UNION {{MigratedSite("auth", stores[k], dsk[stores[k]].v.profiles[i].id, f) :
                              f \in refFieldsWithPlaintext(dsk[stores[k]].v.profiles[i])} :
                          i \in 1..Len(dsk[stores[k]].v.profiles)} :
                   k \in {j \in 1..Len(stores) : dsk[stores[j]].k = "auth"}}

\* C33: a site that holds a SecretRef (serviceAccountRef, or keyRef or
\* tokenRef of a profile) and a plaintext next to it loses the plaintext and
\* keeps its ref; plaintextRemoved counts these sites; they are no migrated
\* sites: the ref counters and secretsWritten count the migrated sites only
\* and the payload is written at the pointers of the migrated sites only, so
\* that with no migrated site the payload is left as it was.
C33_PlaintextNextToRefDropped ==
    (outcome.op = "plan" /\ outcome.ok)
    => LET plan == outcome.plan
           before == disk[CONFIG_PATH].v.googlechat
           after == plan.nextConfig.googlechat
       IN /\ (before.present /\ refWithPlaintext(before)) => plaintextDropped(before, after)
          /\ \A i \in 1..Len(before.accounts) :
                (before.present /\ refWithPlaintext(before.accounts[i]))
                => plaintextDropped(before.accounts[i], after.accounts[i])
          /\ \A site \in refSitesWithPlaintext(disk, env.agentDirs) :
                site.kind = "auth"
                => \E store \in changedStores(plan, site.path) : \E i \in 1..Len(store.profiles) :
                      /\ store.profiles[i].id = site.name
                      /\ store.profiles[i][site.field] = Undef
                      /\ \A f \in {"keyRef", "tokenRef"} :
                            store.profiles[i][f] = entryNamed(disk[site.path].v.profiles, site.name)[f]
          /\ plan.counters.plaintextRemoved = Cardinality(refSitesWithPlaintext(disk, env.agentDirs))
          /\ \A x \in sitePointers(disk, plan) : x.site \notin refSitesWithPlaintext(disk, env.agentDirs)
          /\ plan.counters.configRefs + plan.counters.authProfileRefs
                = Cardinality(sitePointers(disk, plan))
          /\ plan.counters.secretsWritten = Cardinality(sitesToWrite(disk, plan))
          /\ sitePointers(disk, plan) = {} => plan.nextPayload = previousPayloadOf(disk, plan)

\* the channel, an account and two profiles held a plaintext next to a ref:
\* four plaintexts removed, no ref counted, nothing written, the payload of
\* an earlier run as it was
C33_Witness ==
    /\ outcome.op = "plan" /\ outcome.ok
    /\ Cardinality(refSitesWithPlaintext(disk, env.agentDirs)) = 4
    /\ outcome.plan.counters.plaintextRemoved = 4
    /\ outcome.plan.counters.configRefs = 0 /\ outcome.plan.counters.authProfileRefs = 0
    /\ outcome.plan.counters.secretsWritten = 0
    /\ outcome.plan.nextConfig.googlechat.serviceAccount = Undef
    /\ outcome.plan.nextConfig.googlechat.serviceAccountRef = EnvRef
    /\ previousPayloadOf(disk, outcome.plan) # EmptyObject
    /\ outcome.plan.nextPayload = previousPayloadOf(disk, outcome.plan)

\* a serviceAccount that is a plaintext: a non-empty string or a non-empty
\* object that is no SecretRef
isPlaintextServiceAccount(v) ==
    ~isSecretRef(v) /\ (isNonEmptyString(v) \/ (isRecord(v) /\ objectKeys(v) # <<>>))

\* the content the plan leaves in the auth store at the path: the planned
\* store if the plan changes it, else the store as discovered
plannedStores(dsk, plan, path) ==
    IF changedStores(plan, path) # {} THEN changedStores(plan, path) ELSE {dsk[path].v}

\* C34: after planning no recognized site holds a plaintext: in nextConfig
\* no provider or skill apiKey is a non-empty string, neither the Google
\* Chat channel nor an account of it has a plaintext serviceAccount, and in
\* the planned content of every discovered auth store that parses no api_key
\* profile has a non-empty key and no token profile a non-empty token.
C34_NoPlaintextAfterPlanning ==
    (outcome.op = "plan" /\ outcome.ok)
    => LET next == outcome.plan.nextConfig
           stores == collectAuthStorePaths(disk[CONFIG_PATH].v, env.agentDirs)
       IN /\ \A i \in 1..Len(next.providers) : ~isNonEmptyString(next.providers[i].apiKey)
          /\ \A i \in 1..Len(next.skills) : ~isNonEmptyString(next.skills[i].apiKey)
          /\ next.googlechat.present
                => /\ ~isPlaintextServiceAccount(next.googlechat.serviceAccount)
                   /\ \A i \in 1..Len(next.googlechat.accounts) :
                         ~isPlaintextServiceAccount(next.googlechat.accounts[i].serviceAccount)
          /\ \A k \in 1..Len(stores) :
                disk[stores[k]].k = "auth"
                => \A store \in plannedStores(disk, outcome.plan, stores[k]) :
                      \A i \in 1..Len(store.profiles) :
                         /\ store.profiles[i].type = "api_key" => ~isNonEmptyString(store.profiles[i].key)
                         /\ store.profiles[i].type = "token" => ~isNonEmptyString(store.profiles[i].token)

\* a tree with a plaintext at a provider, a skill, the Google Chat channel, an
\* api_key profile and a token profile was planned
C34_Witness ==
    /\ outcome.op = "plan" /\ outcome.ok
    /\ isNonEmptyString(disk[CONFIG_PATH].v.providers[1].apiKey)
    /\ isNonEmptyString(disk[CONFIG_PATH].v.skills[1].apiKey)
    /\ disk[CONFIG_PATH].v.googlechat.present
    /\ isPlaintextServiceAccount(disk[CONFIG_PATH].v.googlechat.serviceAccount)
    /\ ~isSecretRef(disk[CONFIG_PATH].v.googlechat.serviceAccountRef)
    /\ disk[MAIN_AUTH_PATH].k = "auth"
    /\ \E i, j \in 1..Len(disk[MAIN_AUTH_PATH].v.profiles) :
          /\ isNonEmptyString(disk[MAIN_AUTH_PATH].v.profiles[i].key)
          /\ isNonEmptyString(disk[MAIN_AUTH_PATH].v.profiles[j].token)
    /\ isSecretRef(outcome.plan.nextConfig.providers[1].apiKey)
    /\ Len(outcome.plan.authStoreChanges) = 1

\* the auth stores the planner discovers
discoveredStores(dsk, agentDirs) ==
    {collectAuthStorePaths(dsk[CONFIG_PATH].v, agentDirs)[k] :
        k \in 1..Len(collectAuthStorePaths(dsk[CONFIG_PATH].v, agentDirs))}

\* the discovered auth stores that planning mutates: a store that parses and
\* has a non-empty key on an api_key profile or a non-empty token on a token
\* profile (migrated, or dropped next to a ref)
authStoresWithMutation(dsk, agentDirs) ==
    {p \in discoveredStores(dsk, agentDirs) :
        /\ dsk[p].k = "auth"
        /\ \E i \in 1..Len(dsk[p].v.profiles) :
              \/ dsk[p].v.profiles[i].type = "api_key" /\ isNonEmptyString(dsk[p].v.profiles[i].key)
              \/ dsk[p].v.profiles[i].type = "token" /\ isNonEmptyString(dsk[p].v.profiles[i].token)}

noOpWrite ==
    /\ mig.pc = "idle"
    /\ outcome'.op = "write" /\ outcome'.ok
    /\ "changed" \in DOMAIN outcome' /\ ~outcome'.changed

\* the sops invocations of a sequence of calls that encrypt
encryptCalls(calls) ==
    {k \in 1..Len(calls) : \E j \in 1..Len(calls[k].args) : calls[k].args[j] = "--encrypt"}

\* C36: an apply of a plan that changes nothing returns changed = false and
\* does nothing: the backups are as they were (none made, none pruned), no
\* file is written, sops is not asked to encrypt and no apply is left
\* running; an apply that does run has a plan that changes something. Only
\* the step that ends a successful apply of such a plan removes a backup.
C36_UnchangedPlanAppliesNothing ==
    [][/\ noOpWrite
            => /\ backups' = backups
               /\ disk' = disk
               /\ mig' = Idle
               /\ encryptCalls(execCalls') = {}
       /\ (mig.pc = "idle" /\ mig'.pc # "idle") => mig'.plan.changed
       /\ ~(DOMAIN backups \subseteq DOMAIN backups') => (mig.pc = "prune" /\ mig.plan.changed)
      ]_vars

\* a write run over a migrated tree returned changed = false with
\* BACKUP_RETENTION backups in place, the oldest of them older than this run
C36_Witness ==
    /\ mig.pc = "idle"
    /\ outcome.op = "write" /\ outcome.ok
    /\ "changed" \in DOMAIN outcome /\ ~outcome.changed
    /\ ghost.succeeded
    /\ Cardinality(DOMAIN backups) = BACKUP_RETENTION
    /\ \E a \in DOMAIN backups : a \notin ghost.issued

\* the process dies in the middle of a write of the plan: the write leaves
\* what a failure of it can leave, and no handler runs
CrashInWrite(failure) ==
    /\ mig.pc = "write"
    /\ LET step == applySteps(mig.plan)[mig.k]
       IN /\ failure \in stepFailures(step)
          /\ disk' = [disk EXCEPT ![stepPath(mig.plan, step)] =
                         failedStepFile(disk, mig.plan, step, failure)]
          /\ outcome' = [op |-> "killed", ok |-> FALSE, stage |-> "write",
                         step |-> step.kind, failure |-> failure]
    /\ mig' = Idle
    /\ UNCHANGED <<backups, clock, env, ghost>>
    /\ execCalls' = callsAfterStep(execCalls, mig.plan, applySteps(mig.plan)[mig.k])
    /\ UNCHANGED <<actVars, prepVars>>

NextCrash ==
    \/ Next
    \/ \E f \in {"untouched", "written", "partial"} : CrashInWrite(f)

SpecCrash == InitBackup /\ [][NextCrash]_vars

\* C37: every write of applyMigrationPlan is all or nothing: in no state,
\* a crash in the middle of a write included, does the encrypted payload,
\* the config, an auth store or the env file hold partially written content.
C37_WritesAllOrNothing ==
    \A p \in Paths : disk[p].k # "garbage"

\* C38: encryptSopsJsonFile replaces the file at `path` only after the tool
\* has succeeded: the content at the path changes in the rename alone, which
\* moves the whole output of the tool there; a step in which the tool fails
\* (exit, timeout, missing binary) leaves the file as it was before the
\* call, or absent, and so does every step after a failure.
C38_TargetReplacedAfterToolSucceeded ==
    [][enc.pc # "idle"
       => /\ enc'.files[enc.params.path] # enc.files[enc.params.path]
               => \/ /\ enc.pc = "rename"
                     /\ enc.call # <<>> /\ enc.error = ""
                     /\ enc'.files[enc.params.path]
                           = File("sops", enc.params.payload, enc.params.createMode)
                  \/ /\ enc.pc = "chmodTarget"
                     /\ enc'.files[enc.params.path].v = enc.files[enc.params.path].v
          /\ (enc.pc = "exec" /\ enc'.error # "")
               => enc'.files[enc.params.path] = enc.params.target
          /\ enc.pc \in {"writePlain", "chmodPlain", "exec"}
               => enc.files[enc.params.path] = enc.params.target
          /\ (enc.error # "" /\ enc.files[enc.params.path] = enc.params.target)
               => enc'.files[enc.params.path] = enc.params.target
      ]_vars

\* the tool timed out after writing part of its output; the function threw
\* and the encrypted file that existed is as it was
C38_Witness ==
    /\ enc.pc = "thrown"
    /\ enc.error = toSopsError("timed out")
    /\ enc.call # <<>>
    /\ Exists(enc.params.target)
    /\ enc.params.payload # enc.params.target.v
    /\ enc.files[enc.params.path] = enc.params.target

\* the sites of the running call whose ref reads the file source
fileRefSites(p) ==
    {k \in 1..Len(p.sites) : p.sites[k].ref.source = "file" /\ trim(p.sites[k].ref.id) # <<>>}

\* C39: a decrypt that failed stays in the cache for the rest of the call:
\* once the cached promise is rejected (the tool failed or timed out, or the
\* payload is no object), every resolution of a file ref with this cache
\* awaits the cached promise, starts no decrypt, and fails with the error of
\* the promise; sops has run once. A later call has a cache of its own, and
\* its first resolution of a file ref starts a decrypt.
C39_FailedDecryptMemoized ==
    [][/\ (prep.pc # "idle" /\ prep.cache.state = "rejected")
            => /\ prep.decrypts = 1
               /\ \A k \in fileRefSites(prep) :
                     /\ resolveSecretRefValue(prep.sites[k].ref, resolveOptions(prep)).step = "await"
                     /\ resolveSecretRefString(
                            resolveSecretRefValueResumed(prep.sites[k].ref, prep.cache))
                          = [step |-> "throw", error |-> prep.cache.error]
               /\ (prep.pc = "running" /\ prep'.pc = "running")
                    => (prep'.cache = prep.cache /\ prep'.decrypts = 1)
               /\ (prep.pc = "running" /\ prep'.pc = "rejected"
                     /\ prep'.failedAt \in fileRefSites(prep))
                    => (prep'.error = prep.cache.error /\ prep'.decrypts = 1)
       /\ (prep.pc \in {"returned", "rejected"} /\ prep'.pc = "running")
            => /\ prep'.cache = NoPromise /\ prep'.decrypts = 0
               /\ \A k \in fileRefSites(prep') :
                     prep'.input.config.fileSource.present
                     => resolveSecretRefValue(prep'.sites[k].ref, resolveOptions(prep')).step = "decrypt"
      ]_vars

\* the decrypt failed while two resolutions waited for it and a third had
\* not started; the call rejected with the error of the decrypt after one
\* run of sops
C39_Witness ==
    /\ prep.pc = "rejected"
    /\ prep.cache.state = "rejected"
    /\ prep.failedAt \in fileRefSites(prep)
    /\ prep.error = prep.cache.error
    /\ prep.decrypts = 1
    /\ Cardinality(fileRefSites(prep)) >= 3
    /\ Cardinality({k \in fileRefSites(prep) : prep.status[k] = "waiting"}) >= 2

\* C40: each of the two flows, when it returns, has called setCredential
\* exactly once; and maybeApplyApiKeyFromOption, when it returns undefined
\* (no token, or a provider that is not expected), has called nothing.
C40_SetCredentialExactlyOnce ==
    wizard.pc \in {"option", "env"}
    => /\ Cardinality(callsOf(wizard.flow, "setCredential")) = 1
       /\ maybeApplyApiKeyFromOption(wizard.params).result = Undef
            => maybeApplyApiKeyFromOption(wizard.params).calls = <<>>
====
